---- MODULE Spec2Model ----
(***************************************************************************)
(* depi: the dependency specification parser (parse_dep, parse_deps), the  *)
(* alias storage and the macro-group snippets.                             *)
(*                                                                         *)
(* A character is a one-character string, a text is a sequence of          *)
(* characters.  The repository holds two builds of the program: the one of *)
(* commands.rs, cargo.rs and dep.rs, whose parse_deps takes the alias      *)
(* table, and the one of main.rs, whose parse_deps knows the snippet       *)
(* prefix and which has no alias storage; `build' says which one runs.     *)
(*                                                                         *)
(* The second part is the version model (OrdVersion) and the resolver      *)
(* (CratesDep::get_last_version, normalize), under the specification       *)
(* SpecResolve.  The third part is the batch orchestrator of cargo.rs      *)
(* (init_project, append_deps, update_deps) for one run of the program,    *)
(* under the specification SpecBatch.                                      *)
(***************************************************************************)
EXTENDS Integers, Sequences, FiniteSets, TLC

VARIABLES
    aliases,        \* AliasStorage.aliases as last saved: alias name -> expansion text
    file_len,       \* the length of aliases.json in bytes
    build,          \* the program that runs: "dep" (commands.rs, cargo.rs, dep.rs) or "main" (main.rs)
    pc,             \* position of the running command
    input,          \* the argument s of parse_deps
    segs, si,       \* s.trim().split("/") and the index of the segment at hand
    subs, ti,       \* the tokens the segment stands for and the index of the next one
    calls,          \* the arguments parse_dep has been called with, in order
    chars, pos,     \* parse_dep: s.trim() and the index of the character chars.next() yields
    name, version, features, target,
    once_version, once_features, once_target,
    state,          \* DPState
    res,            \* Vec<Result<PDep>> of parse_deps
    out,            \* the value parse_deps returned
    rpc,            \* position of the version and resolver operations
    arg,            \* the argument s of OrdVersion::parse
    parsed,         \* the value OrdVersion::parse returned
    ords,           \* the OrdVersion values that are compared
    orderings,      \* the values cmp returned for them
    pdep, fdep,     \* the arguments of normalize
    nversion,       \* normalize: the local `version'
    dep,            \* the value normalize returned
    toml,           \* a Dep, its to_toml and the from_toml of that
    body,           \* the JSON value fetch_crates_dep received
    cmd,            \* the DepiCommand that runs
    bpc,            \* position of the command
    manifest,       \* the stored Cargo.toml: a toml Table, or None when there is no file
    old_content,    \* the Table the command read from Cargo.toml
    content,        \* the Table in memory: `content' (`newc' of init_project)
    registry,       \* what fetch_crates_dep answers for each crate name during the run
    pdeps,          \* the Vec<PDep> parse_deps returned
    futs,           \* the fetch futures of the batch, in the order they were created
    frs,            \* the values join_all gave: snapshots, or (dtype, uds, vds) per kind
    hmdeps,         \* init and add: the resolved dependencies with their kinds
    writes,         \* how often the command has written Cargo.toml
    status          \* what the command returned

vars == <<aliases, file_len, build, pc, input, segs, si, subs, ti, calls, chars, pos,
          name, version, features, target,
          once_version, once_features, once_target, state, res, out,
          rpc, arg, parsed, ords, orderings, pdep, fdep, nversion, dep,
          toml, body, cmd, bpc, manifest, old_content, content, registry, pdeps,
          futs, frs, hmdeps, writes, status>>

regvars == <<rpc, arg, parsed, ords, orderings, pdep, fdep, nversion, dep>>

cmdvars == <<cmd, bpc, manifest, old_content, content, registry, pdeps, futs, frs, hmdeps,
             writes, status>>

batchvars == <<toml, body, cmd, bpc, manifest, old_content, content, registry, pdeps,
               futs, frs, hmdeps, writes, status>>

tokvars == <<chars, pos, name, version, features, target,
             once_version, once_features, once_target, state>>

(***************************************************************************)
(* Bounds of the model.                                                    *)
(***************************************************************************)
\* longest input over the whole alphabet
MaxLen == 3
\* longest input over one name character and the three delimiters
MaxDelimLen == 5
\* longest well-formed token name@version:features!kind
MaxTok == 8

(***************************************************************************)
(* Characters.                                                             *)
(***************************************************************************)
AlnumChars ==
    {"a", "b", "0", "1", "2", "A", "s", "x", "u", "m", "t", "o", "k", "i", "f", "l",
     "B", "d", "e", "g", "n", "p", "r", "v", "3", "5", "9", "w"}

Alphabet == {"a", "1", "@", ":", "!", ".", ",", "-", "_", " ", "/", "+"}

is_alphanumeric(c) == c \in AlnumChars

is_whitespace(c) == c = " "

to_lowercase_char(c) == IF c = "A" THEN "a" ELSE IF c = "B" THEN "b" ELSE c

to_lowercase(s) == [i \in 1..Len(s) |-> to_lowercase_char(s[i])]

(***************************************************************************)
(* str::trim, str::split("/"), str::starts_with, str::strip_prefix.        *)
(***************************************************************************)
RECURSIVE trim_start(_)
trim_start(s) ==
    IF s # <<>> /\ is_whitespace(Head(s)) THEN trim_start(Tail(s)) ELSE s

RECURSIVE trim_end(_)
trim_end(s) ==
    IF s # <<>> /\ is_whitespace(s[Len(s)])
    THEN trim_end(SubSeq(s, 1, Len(s) - 1))
    ELSE s

trim(s) == trim_end(trim_start(s))

RECURSIVE split_from(_, _, _)
split_from(s, i, cur) ==
    IF i > Len(s) THEN <<cur>>
    ELSE IF s[i] = "/" THEN <<cur>> \o split_from(s, i + 1, <<>>)
    ELSE split_from(s, i + 1, Append(cur, s[i]))

split(s) == split_from(s, 1, <<>>)

starts_with(s, p) == Len(s) >= Len(p) /\ SubSeq(s, 1, Len(p)) = p

\* strip_prefix(p).unwrap_or_default()
strip_prefix(s, p) == IF starts_with(s, p) THEN SubSeq(s, Len(p) + 1, Len(s)) ELSE <<>>

(***************************************************************************)
(* The macro groups of main.rs.                                            *)
(***************************************************************************)
SNIPPET_PREFIX == <<"s", "+">>

\* DepsSnippet::from: the group a segment names, "panic" when there is none
DepsSnippet_from(d) ==
    IF to_lowercase(strip_prefix(d, SNIPPET_PREFIX)) = <<"a", "x", "u", "m">>
    THEN "Axum" ELSE "panic"

\* DepsSnippet::get_deps: the tokens of a group
get_deps(g) ==
    IF g = "Axum"
    THEN << <<"t", "o", "k", "i", "o", ":", "f", "u", "l", "l">>, <<"a", "x", "u", "m">> >>
    ELSE <<>>

(***************************************************************************)
(* The inputs the commands are run with.                                   *)
(***************************************************************************)
Strs(S, n) == UNION {[1..k -> S] : k \in 0..n}

ShortInputs == Strs(Alphabet, MaxLen)

DelimInputs == Strs({"a", "@", ":", "!"}, MaxDelimLen)

NameChars == {"a", "1", "-", "_"}
VersionChars == {"a", "1", ".", "-", "_"}
FeaturesChars == {"a", "1", ",", "-", "_"}
TargetChars == {"a", "1", "-", "_"}

\* the texts of length n over S that begin with an alphanumeric character
Section(S, n) == {s \in [1..n -> S] : is_alphanumeric(s[1])}

SectionLens ==
    {l \in [1..4 -> 1..(MaxTok - 6)] : l[1] + l[2] + l[3] + l[4] + 3 <= MaxTok}

Token(n, v, f, k) == n \o <<"@">> \o v \o <<":">> \o f \o <<"!">> \o k

ValidTokens ==
    UNION {{Token(n, v, f, k) : n \in Section(NameChars, l[1]),
                                v \in Section(VersionChars, l[2]),
                                f \in Section(FeaturesChars, l[3]),
                                k \in Section(TargetChars, l[4])} : l \in SectionLens}

\* worked examples: a@1.0@2.0, a@1.0:f,+, a//b, a@1.0:a,b/b
ExampleInputs ==
    { <<"a", "@", "1", ".", "0", "@", "2", ".", "0">>,
      <<"a", "@", "1", ".", "0", ":", "f", ",", "+">>,
      <<"a", "/", "/", "b">>,
      <<"a", "@", "1", ".", "0", ":", "a", ",", "b", "/", "b">> }

SnippetInputs ==
    { <<"s", "+", "a", "x", "u", "m">>,
      <<"s", "+", "A", "x", "u", "m">>,
      <<"a", "/", "s", "+", "a", "x", "u", "m">>,
      <<"s", "+", "a", "x", "u", "m", "/", "a">>,
      <<"s", "+", "a">> }

DepInputs ==
    ShortInputs \cup DelimInputs \cup ValidTokens \cup ExampleInputs \cup SnippetInputs

MainInputs == ShortInputs \cup ExampleInputs \cup SnippetInputs

AliasNames == { <<"a">> }

AliasOriginals == { <<"a">>, <<"1", "/", "a">>, <<"1", "/">> }

(***************************************************************************)
(* Results.                                                                *)
(***************************************************************************)
Ok(v) == [ok |-> TRUE, val |-> v]

Err(m) == [ok |-> FALSE, msg |-> m]

PDep(n, v, f, t) == [name |-> n, version |-> v, features |-> f, target |-> t]

\* ParseErr with the version and the features in each other's place
ParseErr_swapped(n, v, f, t, st) ==
    [ok |-> FALSE, msg |-> "parse error",
     name |-> n, version |-> f, features |-> v, target |-> t, state |-> st]

\* the anyhow! of the last match arm of parse_dep
ParseErr(n, v, f, t, st) ==
    [ok |-> FALSE, msg |-> "parse error",
     name |-> n, version |-> v, features |-> f, target |-> t, state |-> st]

RECURSIVE first_err(_, _)
first_err(r, i) ==
    IF i > Len(r) THEN 0 ELSE IF ~r[i].ok THEN i ELSE first_err(r, i + 1)

\* res.into_iter().collect::<Result<Vec<_>>>()
collect(r) ==
    IF first_err(r, 1) = 0
    THEN Ok([i \in 1..Len(r) |-> r[i].val])
    ELSE r[first_err(r, 1)]

(***************************************************************************)
(* Initial state: no alias stored, no command running.                     *)
(***************************************************************************)
\* Option<T>
Some(v) == [some |-> TRUE, val |-> v]

None == [some |-> FALSE]

\* api::CratesDep { name, versions }
CratesDep(n, vs) == [name |-> n, versions |-> vs]

\* no version or resolver operation is running
NoReg ==
    /\ rpc = "idle"
    /\ arg = <<>>
    /\ parsed = Err("none")
    /\ ords = <<>>
    /\ orderings = <<>>
    /\ pdep = PDep(<<>>, <<>>, <<>>, <<>>)
    /\ fdep = CratesDep(<<>>, << >>)
    /\ nversion = <<>>
    /\ dep = Err("none")

\* no conversion has been applied, no command runs, there is no Cargo.toml
NoBatch ==
    /\ toml = <<>>
    /\ body = <<>>
    /\ cmd = "none"
    /\ bpc = "idle"
    /\ manifest = None
    /\ old_content = << >>
    /\ content = << >>
    /\ registry = << >>
    /\ pdeps = <<>>
    /\ futs = <<>>
    /\ frs = <<>>
    /\ hmdeps = <<>>
    /\ writes = 0
    /\ status = Err("none")

NoTok ==
    /\ chars = <<>> /\ pos = 0
    /\ name = <<>> /\ version = <<>> /\ features = <<>> /\ target = <<>>
    /\ once_version = FALSE /\ once_features = FALSE /\ once_target = FALSE
    /\ state = "Name"

Init ==
    /\ aliases = << >>
    /\ file_len = 0
    /\ build \in {"dep", "main"}
    /\ pc = "idle"
    /\ input = <<>>
    /\ segs = <<>> /\ si = 0
    /\ subs = <<>> /\ ti = 0
    /\ calls = <<>>
    /\ res = <<>>
    /\ out = Err("none")
    /\ NoTok
    /\ NoReg
    /\ NoBatch

(***************************************************************************)
(* The alias commands.                                                     *)
(***************************************************************************)
RECURSIVE entries_len(_, _)
entries_len(m, ks) ==
    IF ks = {} THEN 0
    ELSE LET k == CHOOSE x \in ks : TRUE
         IN  Len(k) + Len(m[k]) + 5 + entries_len(m, ks \ {k})

\* the length of serde_json::to_writer(file, &self.aliases): {"k":"v",...}
json_len(m) ==
    IF DOMAIN m = {} THEN 2
    ELSE 2 + entries_len(m, DOMAIN m) + Cardinality(DOMAIN m) - 1

\* AliasStorage::load: an empty file is the empty table; serde_json::from_str
\* refuses a file in which text follows the object
load_ok == file_len = 0 \/ file_len = json_len(aliases)

\* AliasStorage::save: the file is opened for writing without truncation, so
\* what an older, longer content had beyond the new text stays in the file
save(m) ==
    /\ aliases' = m
    /\ file_len' = IF json_len(m) > file_len THEN json_len(m) ELSE file_len

\* AliasCommand::Add: load, a_s.add(&name, &original), then a_s.save()
AliasAdd(k, v) ==
    /\ pc = "idle"
    /\ build = "dep"
    /\ load_ok
    /\ save([x \in DOMAIN aliases \cup {k} |-> IF x = k THEN v ELSE aliases[x]])
    /\ UNCHANGED <<build, regvars, batchvars, pc, input, segs, si, subs, ti, calls, res, out>>
    /\ UNCHANGED tokvars

\* AliasCommand::Remove: load, a_s.rem(&name), then a_s.save()
AliasRem(k) ==
    /\ pc = "idle"
    /\ build = "dep"
    /\ load_ok
    /\ k \in DOMAIN aliases
    /\ save([x \in DOMAIN aliases \ {k} |-> aliases[x]])
    /\ UNCHANGED <<build, regvars, batchvars, pc, input, segs, si, subs, ti, calls, res, out>>
    /\ UNCHANGED tokvars

(***************************************************************************)
(* parse_deps.                                                             *)
(***************************************************************************)
\* entry of parse_deps: s.as_ref().trim().split("/")
ParseDepsStart(b, s) ==
    /\ pc = "idle"
    /\ build = b
    /\ input' = s
    /\ segs' = split(trim(s))
    /\ si' = 1
    /\ subs' = <<>> /\ ti' = 0
    /\ calls' = <<>>
    /\ res' = <<>>
    /\ out' = Err("none")
    /\ pc' = "segment"
    /\ UNCHANGED <<aliases, file_len, build, regvars>>
    /\ UNCHANGED tokvars

\* cargo.rs: AliasStorage::load()?, then parse_deps(s, a_s.list())
ParseDepsDep ==
    /\ pc = "idle" /\ build = "dep" /\ load_ok /\ \E s \in DepInputs : ParseDepsStart("dep", s)
    /\ UNCHANGED batchvars

\* main.rs: parse_deps(s) is called
ParseDepsMain ==
    /\ pc = "idle" /\ build = "main" /\ \E s \in MainInputs : ParseDepsStart("main", s)
    /\ UNCHANGED batchvars

\* alias_tokens with the macro-group prefix tried before the alias table
alias_tokens_macro_first(d) ==
    IF starts_with(d, SNIPPET_PREFIX) /\ DepsSnippet_from(d) = "Axum"
    THEN get_deps("Axum")
    ELSE IF d \in DOMAIN aliases THEN split(aliases[d]) ELSE <<d>>

RECURSIVE expand_again(_, _)
expand_again(ts, i) ==
    IF i > Len(ts) THEN <<>>
    ELSE (IF ts[i] \in DOMAIN aliases THEN split(aliases[ts[i]]) ELSE <<ts[i]>>)
            \o expand_again(ts, i + 1)

\* alias_tokens where the pieces of an expansion are looked up once more
alias_tokens_deep(d) ==
    IF d \in DOMAIN aliases THEN expand_again(split(aliases[d]), 1) ELSE <<d>>

\* dep.rs: the tokens a segment stands for
alias_tokens(d) ==
    IF d \in DOMAIN aliases THEN split(aliases[d]) ELSE <<d>>

\* main.rs: the tokens a segment stands for
snippet_tokens(d) ==
    IF starts_with(d, SNIPPET_PREFIX) THEN get_deps(DepsSnippet_from(d)) ELSE <<d>>

\* one iteration of `for d in ...split("/")': choose the tokens of the segment
NextSegment ==
    /\ pc = "segment"
    /\ si <= Len(segs)
    /\ IF build = "main" /\ starts_with(segs[si], SNIPPET_PREFIX)
          /\ DepsSnippet_from(segs[si]) = "panic"
       THEN /\ pc' = "panic"
            /\ UNCHANGED <<subs, ti>>
       ELSE /\ subs' = IF build = "dep" THEN alias_tokens(segs[si])
                                        ELSE snippet_tokens(segs[si])
            /\ ti' = 1
            /\ pc' = "token"
    /\ UNCHANGED <<aliases, file_len, build, regvars, batchvars, input, segs, si, calls, res, out>>
    /\ UNCHANGED tokvars

\* the tokens of the segment are all parsed: the next segment
SegmentDone ==
    /\ pc = "token"
    /\ ti > Len(subs)
    /\ si' = si + 1
    /\ subs' = <<>> /\ ti' = 0
    /\ pc' = "segment"
    /\ UNCHANGED <<aliases, file_len, build, regvars, batchvars, input, segs, calls, res, out>>
    /\ UNCHANGED tokvars

\* res.into_iter().collect()
Collect ==
    /\ pc = "segment"
    /\ si > Len(segs)
    /\ out' = collect(res)
    /\ pc' = "done"
    /\ UNCHANGED <<aliases, file_len, build, regvars, batchvars, input, segs, si, subs, ti, calls, res>>
    /\ UNCHANGED tokvars

(***************************************************************************)
(* parse_dep.                                                              *)
(***************************************************************************)
ResetTok ==
    /\ chars' = <<>> /\ pos' = 0
    /\ name' = <<>> /\ version' = <<>> /\ features' = <<>> /\ target' = <<>>
    /\ once_version' = FALSE /\ once_features' = FALSE /\ once_target' = FALSE
    /\ state' = "Name"

\* parse_dep returns r to parse_deps, which pushes it
Return(r) ==
    /\ res' = Append(res, r)
    /\ ti' = ti + 1
    /\ pc' = "token"
    /\ UNCHANGED <<aliases, file_len, build, regvars, batchvars, input, segs, si, subs, calls>>

\* ParseDepBegin where an empty token is skipped without a result
ParseDepBegin_skip ==
    /\ pc = "token"
    /\ ti <= Len(subs)
    /\ calls' = Append(calls, subs[ti])
    /\ IF trim(subs[ti]) = <<>>
       THEN /\ ti' = ti + 1
            /\ pc' = "token"
            /\ UNCHANGED res
            /\ UNCHANGED tokvars
       ELSE /\ chars' = trim(subs[ti])
            /\ pos' = 1
            /\ name' = <<>> /\ version' = <<>> /\ features' = <<>> /\ target' = <<>>
            /\ once_version' = FALSE /\ once_features' = FALSE /\ once_target' = FALSE
            /\ state' = "Name"
            /\ pc' = "chars"
            /\ UNCHANGED <<res, ti>>
    /\ UNCHANGED <<aliases, file_len, build, regvars, batchvars, input, segs, si, subs, out>>

\* entry of parse_dep: trim, and the empty string is an error
ParseDepBegin ==
    /\ pc = "token"
    /\ ti <= Len(subs)
    /\ calls' = Append(calls, subs[ti])
    /\ IF trim(subs[ti]) = <<>>
       THEN /\ res' = Append(res, Err("provided empty string"))
            /\ ti' = ti + 1
            /\ pc' = "token"
            /\ UNCHANGED tokvars
       ELSE /\ chars' = trim(subs[ti])
            /\ pos' = 1
            /\ name' = <<>> /\ version' = <<>> /\ features' = <<>> /\ target' = <<>>
            /\ once_version' = FALSE /\ once_features' = FALSE /\ once_target' = FALSE
            /\ state' = "Name"
            /\ pc' = "chars"
            /\ UNCHANGED <<res, ti>>
    /\ UNCHANGED <<aliases, file_len, build, regvars, batchvars, input, segs, si, subs, out>>

\* peek_alphanumeric without the test of the character
peek_is_some == pos + 1 <= Len(chars)

\* chars.peek().is_some() && chars.peek().unwrap().is_alphanumeric()
peek_alphanumeric == pos + 1 <= Len(chars) /\ is_alphanumeric(chars[pos + 1])

\* version_arm without the test of the state and of the once flag
version_arm_any_state ==
    /\ chars[pos] = "@"
    /\ peek_alphanumeric

\* the guard of the arm '@'
version_arm ==
    /\ chars[pos] = "@"
    /\ state = "Name"
    /\ peek_alphanumeric
    /\ ~once_version

\* features_arm without the test of the state and of the once flag
features_arm_any_state ==
    /\ chars[pos] = ":"
    /\ peek_alphanumeric

\* the guard of the arm ':'
features_arm ==
    /\ chars[pos] = ":"
    /\ state = "Name" \/ state = "Version"
    /\ peek_alphanumeric
    /\ ~once_features

\* the guard of the arm '!'
target_arm ==
    /\ chars[pos] = "!"
    /\ state # "Target"
    /\ peek_alphanumeric
    /\ ~once_target

\* push_arm where a delimiter that starts no section is data of the section
push_arm_literal(c, st) ==
    CASE (is_alphanumeric(c) \/ c \in {"@", ":", "!"} \/ c = "." \/ c = "-" \/ c = "_")
            /\ st = "Version" -> "version"
      [] (is_alphanumeric(c) \/ c \in {"@", ":", "!"} \/ c = "," \/ c = "-" \/ c = "_")
            /\ st = "Features" -> "features"
      [] (is_alphanumeric(c) \/ c \in {"@", ":", "!"} \/ c = "-" \/ c = "_")
            /\ st = "Name" -> "name"
      [] (is_alphanumeric(c) \/ c \in {"@", ":", "!"} \/ c = "-" \/ c = "_")
            /\ st = "Target" -> "target"
      [] OTHER -> "none"

\* push_arm where every section takes '.'
push_arm_dot(c, st) ==
    CASE (is_alphanumeric(c) \/ c = "." \/ c = "-" \/ c = "_") /\ st = "Version" -> "version"
      [] (is_alphanumeric(c) \/ c = "." \/ c = "," \/ c = "-" \/ c = "_")
            /\ st = "Features" -> "features"
      [] (is_alphanumeric(c) \/ c = "." \/ c = "-" \/ c = "_") /\ st = "Name" -> "name"
      [] (is_alphanumeric(c) \/ c = "." \/ c = "-" \/ c = "_") /\ st = "Target" -> "target"
      [] OTHER -> "none"

\* push_arm where the version does not take '.'
push_arm_no_dot(c, st) ==
    CASE (is_alphanumeric(c) \/ c = "-" \/ c = "_") /\ st = "Version" -> "version"
      [] (is_alphanumeric(c) \/ c = "," \/ c = "-" \/ c = "_") /\ st = "Features" -> "features"
      [] (is_alphanumeric(c) \/ c = "-" \/ c = "_") /\ st = "Name" -> "name"
      [] (is_alphanumeric(c) \/ c = "-" \/ c = "_") /\ st = "Target" -> "target"
      [] OTHER -> "none"

\* the arms that push c: the section c is pushed to, "none" when no arm takes c
push_arm(c, st) ==
    CASE (is_alphanumeric(c) \/ c = "." \/ c = "-" \/ c = "_") /\ st = "Version" -> "version"
      [] (is_alphanumeric(c) \/ c = "," \/ c = "-" \/ c = "_") /\ st = "Features" -> "features"
      [] (is_alphanumeric(c) \/ c = "-" \/ c = "_") /\ st = "Name" -> "name"
      [] (is_alphanumeric(c) \/ c = "-" \/ c = "_") /\ st = "Target" -> "target"
      [] is_alphanumeric(c) ->
            (CASE st = "Name" -> "name"
               [] st = "Version" -> "version"
               [] st = "Features" -> "features"
               [] st = "Target" -> "target")
      [] OTHER -> "none"

InLoop == pc = "chars" /\ pos <= Len(chars)

\* '@': Name -> Version
TransitionVersion ==
    /\ InLoop
    /\ version_arm
    /\ once_version' = TRUE
    /\ state' = "Version"
    /\ pos' = pos + 1
    /\ UNCHANGED <<chars, name, version, features, target, once_features, once_target>>
    /\ UNCHANGED <<aliases, file_len, build, regvars, batchvars, pc, input, segs, si, subs, ti, calls, res, out>>

\* ':': Name or Version -> Features
TransitionFeatures ==
    /\ InLoop
    /\ ~version_arm
    /\ features_arm
    /\ once_features' = TRUE
    /\ state' = "Features"
    /\ pos' = pos + 1
    /\ UNCHANGED <<chars, name, version, features, target, once_version, once_target>>
    /\ UNCHANGED <<aliases, file_len, build, regvars, batchvars, pc, input, segs, si, subs, ti, calls, res, out>>

\* '!': Name, Version or Features -> Target
TransitionTarget ==
    /\ InLoop
    /\ ~version_arm /\ ~features_arm
    /\ target_arm
    /\ once_target' = TRUE
    /\ state' = "Target"
    /\ pos' = pos + 1
    /\ UNCHANGED <<chars, name, version, features, target, once_version, once_features>>
    /\ UNCHANGED <<aliases, file_len, build, regvars, batchvars, pc, input, segs, si, subs, ti, calls, res, out>>

\* the character is pushed to the section of the state
PushChar ==
    /\ InLoop
    /\ ~version_arm /\ ~features_arm /\ ~target_arm
    /\ push_arm(chars[pos], state) # "none"
    /\ LET c == chars[pos]
           to == push_arm(c, state)
       IN  /\ name' = IF to = "name" THEN Append(name, c) ELSE name
           /\ version' = IF to = "version" THEN Append(version, c) ELSE version
           /\ features' = IF to = "features" THEN Append(features, c) ELSE features
           /\ target' = IF to = "target" THEN Append(target, c) ELSE target
    /\ pos' = pos + 1
    /\ UNCHANGED <<chars, once_version, once_features, once_target, state>>
    /\ UNCHANGED <<aliases, file_len, build, regvars, batchvars, pc, input, segs, si, subs, ti, calls, res, out>>

\* the last arm: any other character is a parse error
ParseError ==
    /\ InLoop
    /\ ~version_arm /\ ~features_arm /\ ~target_arm
    /\ push_arm(chars[pos], state) = "none"
    /\ Return(ParseErr(name, version, features, target, state))
    /\ UNCHANGED out
    /\ UNCHANGED tokvars

\* the loop is over: Ok(PDep {..})
ParseDepEnd ==
    /\ pc = "chars"
    /\ pos > Len(chars)
    /\ Return(Ok(PDep(name, version, features, target)))
    /\ UNCHANGED out
    /\ UNCHANGED tokvars

\* the command is over (parse_deps returned, or the process panicked)
Finish ==
    /\ pc \in {"done", "panic"}
    /\ pc' = "idle"
    /\ input' = <<>>
    /\ segs' = <<>> /\ si' = 0
    /\ subs' = <<>> /\ ti' = 0
    /\ calls' = <<>>
    /\ res' = <<>>
    /\ out' = Err("none")
    /\ ResetTok
    /\ UNCHANGED <<aliases, file_len, build, regvars, batchvars>>

Next ==
    \/ \E k \in AliasNames, v \in AliasOriginals : AliasAdd(k, v)
    \/ \E k \in AliasNames : AliasRem(k)
    \/ ParseDepsDep
    \/ ParseDepsMain
    \/ NextSegment
    \/ SegmentDone
    \/ Collect
    \/ ParseDepBegin
    \/ TransitionVersion
    \/ TransitionFeatures
    \/ TransitionTarget
    \/ PushChar
    \/ ParseError
    \/ ParseDepEnd
    \/ Finish

Spec == Init /\ [][Next]_vars

(***************************************************************************)
(* OrdVersion: parse, to_string and the derived order.                     *)
(***************************************************************************)
\* an error whose message is formatted with a value
ErrWith(m, a) == [ok |-> FALSE, msg |-> m, arg |-> a]

\* a panic of the process: Option::unwrap() on None
Panic == Err("panicked: unwrap on a None value")

Digits == <<"0", "1", "2", "3", "4", "5", "6", "7", "8", "9">>

is_ascii_digit(c) == \E i \in 1..10 : Digits[i] = c

to_digit(c) == (CHOOSE i \in 1..10 : Digits[i] = c) - 1

\* the index of the first c in s, 0 when there is none
find(s, c) ==
    IF \E i \in 1..Len(s) : s[i] = c
    THEN CHOOSE i \in 1..Len(s) : s[i] = c /\ \A j \in 1..(i - 1) : s[j] # c
    ELSE 0

\* str::split_once(c)
split_once(s, c) ==
    IF find(s, c) = 0 THEN None
    ELSE Some(<<SubSeq(s, 1, find(s, c) - 1), SubSeq(s, find(s, c) + 1, Len(s))>>)

\* str::trim_start_matches(c) for a character c
RECURSIVE trim_start_matches(_, _)
trim_start_matches(s, c) ==
    IF s # <<>> /\ Head(s) = c THEN trim_start_matches(Tail(s), c) ELSE s

\* str::split(sep).collect::<Vec<_>>() for a one-character separator
RECURSIVE split_on_from(_, _, _, _)
split_on_from(s, sep, i, cur) ==
    IF i > Len(s) THEN <<cur>>
    ELSE IF s[i] = sep THEN <<cur>> \o split_on_from(s, sep, i + 1, <<>>)
    ELSE split_on_from(s, sep, i + 1, Append(cur, s[i]))

split_on(s, sep) == split_on_from(s, sep, 1, <<>>)

\* the value of a text of decimal digits
RECURSIVE digits_value(_)
digits_value(d) ==
    IF d = <<>> THEN 0
    ELSE 10 * digits_value(SubSeq(d, 1, Len(d) - 1)) + to_digit(d[Len(d)])

\* str::parse::<u32>(): an optional '+', then at least one digit and only
\* digits (the texts of the model are short: the value is below 2^32)
parse_u32(t) ==
    LET d == IF t # <<>> /\ Head(t) = "+" THEN Tail(t) ELSE t
    IN  IF t = <<>> THEN Err("cannot parse integer from empty string")
        ELSE IF d = <<>> \/ \E i \in 1..Len(d) : ~is_ascii_digit(d[i])
             THEN Err("invalid digit found in string")
             ELSE Ok(digits_value(d))

\* parse_fields that also takes a text of four fields and drops the fourth
parse_fields_four(f) ==
    IF Len(f) \notin 1..4 THEN ErrWith("invalid parts {}", Len(f))
    ELSE LET n == [i \in 1..Len(f) |-> parse_u32(f[i])]
         IN  IF first_err(n, 1) # 0 THEN n[first_err(n, 1)]
             ELSE Ok(<<n[1].val,
                       IF Len(f) >= 2 THEN n[2].val ELSE 0,
                       IF Len(f) >= 3 THEN n[3].val ELSE 0>>)

\* the match on s.len(): one, two or three fields, each parsed with `?'
parse_fields(f) ==
    IF Len(f) \notin 1..3 THEN ErrWith("invalid parts {}", Len(f))
    ELSE LET n == [i \in 1..Len(f) |-> parse_u32(f[i])]
         IN  IF first_err(n, 1) # 0 THEN n[first_err(n, 1)]
             ELSE Ok(<<n[1].val,
                       IF Len(f) >= 2 THEN n[2].val ELSE 0,
                       IF Len(f) >= 3 THEN n[3].val ELSE 0>>)

\* the text whose fields are parsed: s without the repetitions of its first
\* character, when that character is not a digit
strip_start(s) ==
    IF ~is_ascii_digit(Head(s)) THEN trim_start_matches(s, Head(s)) ELSE s

\* OrdVersion::parse after the suffix is dealt with: s.chars().nth(0).unwrap()
\* panics on the empty text
parse_stem(s) ==
    IF s = <<>> THEN Panic ELSE parse_fields(split_on(strip_start(s), "."))

\* OrdVersion::parse: utils.rs keeps what is left of the first '-', main.rs
\* refuses a text with a '-'
OrdVersion_parse(b, s) ==
    IF split_once(s, "-").some
    THEN IF b = "main"
         THEN ErrWith("version with suffix {} is not supported", split_once(s, "-").val[2])
         ELSE parse_stem(split_once(s, "-").val[1])
    ELSE parse_stem(s)

\* the decimal text of a number
RECURSIVE u32_to_string(_)
u32_to_string(n) ==
    IF n < 10 THEN <<Digits[n + 1]>>
    ELSE u32_to_string(n \div 10) \o <<Digits[(n % 10) + 1]>>

\* impl ToString for OrdVersion: format!("{}.{}.{}", self.0, self.1, self.2)
OrdVersion_to_string(v) ==
    u32_to_string(v[1]) \o <<".">> \o u32_to_string(v[2]) \o <<".">> \o u32_to_string(v[3])

\* u32::cmp
cmp_u32(a, b) == IF a < b THEN "Less" ELSE IF a > b THEN "Greater" ELSE "Equal"

\* OrdVersion_cmp that looks at the third field before the second
OrdVersion_cmp_patch_first(a, b) ==
    IF cmp_u32(a[1], b[1]) # "Equal" THEN cmp_u32(a[1], b[1])
    ELSE IF cmp_u32(a[3], b[3]) # "Equal" THEN cmp_u32(a[3], b[3])
    ELSE cmp_u32(a[2], b[2])

\* #[derive(PartialOrd, Ord)] on OrdVersion(u32, u32, u32): the fields in order
OrdVersion_cmp(a, b) ==
    IF cmp_u32(a[1], b[1]) # "Equal" THEN cmp_u32(a[1], b[1])
    ELSE IF cmp_u32(a[2], b[2]) # "Equal" THEN cmp_u32(a[2], b[2])
    ELSE cmp_u32(a[3], b[3])

\* Iterator::max() of a non-empty set of OrdVersion values
max(S) == CHOOSE m \in S : \A x \in S : OrdVersion_cmp(x, m) # "Greater"

(***************************************************************************)
(* api::CratesDep and normalize.                                           *)
(***************************************************************************)
\* CratesDep::get_last_version: every key is parsed, the keys that parse are
\* compared, and max().unwrap() panics when there is none
get_last_version(b, f) ==
    LET keys == DOMAIN f.versions
        good == {k \in keys : OrdVersion_parse(b, k).ok}
    IN  IF \E k \in keys : OrdVersion_parse(b, k) = Panic THEN Panic
        ELSE IF good = {} THEN Panic
        ELSE Ok(OrdVersion_to_string(max({OrdVersion_parse(b, k).val : k \in good})))

\* CratesDep::has_version
has_version(f, v) == v \in DOMAIN f.versions

\* CratesDep::get_features
get_features(f, v) == IF v \in DOMAIN f.versions THEN Some(f.versions[v]) ELSE None

\* Vec::contains
contains(l, x) == \E i \in 1..Len(l) : l[i] = x

\* Dep { name, version, features }
Dep(n, v, fs) == [name |-> n, version |-> v, features |-> fs]

\* select_features that reports the last requested feature that is no member
select_features_last(p, f, v) ==
    IF p.features = <<>> THEN Ok(None)
    ELSE IF get_features(f, v).some
    THEN LET ffeatures == get_features(f, v).val
             pfeatures == split_on(p.features, ",")
             bad == {i \in 1..Len(pfeatures) : ~contains(ffeatures, pfeatures[i])}
         IN  IF bad # {}
             THEN ErrWith("invalid features: {}",
                          pfeatures[CHOOSE i \in bad : \A j \in bad : i >= j])
             ELSE Ok(Some(pfeatures))
    ELSE Err("invalid features, strange")

\* select_features where a version without an entry has no feature
select_features_no_entry(p, f, v) ==
    IF p.features = <<>> THEN Ok(None)
    ELSE LET ffeatures == IF get_features(f, v).some THEN get_features(f, v).val ELSE <<>>
             pfeatures == split_on(p.features, ",")
             bad == {i \in 1..Len(pfeatures) : ~contains(ffeatures, pfeatures[i])}
         IN  IF bad # {}
             THEN ErrWith("invalid features: {}",
                          pfeatures[CHOOSE i \in bad : \A j \in bad : i <= j])
             ELSE Ok(Some(pfeatures))

\* select_features that returns the features as the registry declares them
select_features_declared(p, f, v) ==
    IF p.features = <<>> THEN Ok(None)
    ELSE IF get_features(f, v).some
    THEN LET ffeatures == get_features(f, v).val
             pfeatures == split_on(p.features, ",")
             bad == {i \in 1..Len(pfeatures) : ~contains(ffeatures, pfeatures[i])}
         IN  IF bad # {}
             THEN ErrWith("invalid features: {}",
                          pfeatures[CHOOSE i \in bad : \A j \in bad : i <= j])
             ELSE Ok(Some(SelectSeq(ffeatures, LAMBDA x : contains(pfeatures, x))))
    ELSE Err("invalid features, strange")

\* normalize: the `features' of the result, or the error
select_features(p, f, v) ==
    IF p.features = <<>> THEN Ok(None)
    ELSE IF get_features(f, v).some
    THEN LET ffeatures == get_features(f, v).val
             pfeatures == split_on(p.features, ",")
             bad == {i \in 1..Len(pfeatures) : ~contains(ffeatures, pfeatures[i])}
         IN  IF bad # {}
             THEN ErrWith("invalid features: {}",
                          pfeatures[CHOOSE i \in bad : \A j \in bad : i <= j])
             ELSE Ok(Some(pfeatures))
    ELSE Err("invalid features, strange")

(***************************************************************************)
(* The inputs of the version and resolver operations.                      *)
(***************************************************************************)
\* longest version text over the whole version alphabet
MaxVerLen == 4
\* longest version text of digits and dots
MaxDotLen == 7
\* largest field of a compared version
MaxNum == 1
\* most versions in a registry snapshot
MaxKeys == 3

VerAlphabet == {"1", "2", ".", "-", "v", "b", "+"}

\* worked examples: 2.0.0-beta, 1.5.2, v1.2, vb1.2, >=1.2, 1.2.3-rc.1
ExampleVersions ==
    { <<"2", ".", "0", ".", "0", "-", "b", "e", "t", "a">>,
      <<"1", ".", "5", ".", "2">>,
      <<"v", "1", ".", "2">>,
      <<"v", "b", "1", ".", "2">>,
      <<">", "=", "1", ".", "2">>,
      <<"1", ".", "2", ".", "3", "-", "r", "c", ".", "1">> }

VersionInputs ==
    Strs(VerAlphabet, MaxVerLen) \cup Strs({"1", "."}, MaxDotLen) \cup ExampleVersions

\* the versions that are compared: 2.0.0, 1.9.9, 1.9.0 and the small ones
CompareInputs ==
    { <<2, 0, 0>>, <<1, 9, 9>>, <<1, 9, 0>> }
        \cup ((0..MaxNum) \X (0..MaxNum) \X (0..MaxNum))

\* the version keys a registry answer may hold
KeyUniverse ==
    { <<"1", ".", "0", ".", "0">>,
      <<"2", ".", "0", ".", "0", "-", "b", "e", "t", "a">>,
      <<"1", ".", "5", ".", "2">>,
      <<"1", ".", "0">>,
      <<"x">> }

\* the feature lists a registry answer may hold
FeatureLists == { <<>>, << <<"f">>, <<"l">> >>, << <<"l">>, <<"f">> >> }

\* snapshots that hold 1.0.0 and a version text without a first character
\* before the suffix
StemlessSnapshots ==
    {CratesDep(<<"a">>, [v \in {k, <<"1", ".", "0", ".", "0">>} |-> <<>>]) :
        k \in {<<>>, <<"-", "b">>}}

Snapshots ==
    UNION {{CratesDep(<<"a">>, vs) : vs \in [ks -> FeatureLists]} :
              ks \in {k \in SUBSET KeyUniverse : Cardinality(k) <= MaxKeys}}
        \cup StemlessSnapshots

\* the requests parse_dep may hand to normalize
ReqVersions ==
    { <<>>,
      <<"1", ".", "0", ".", "0">>,
      <<"1", ".", "0">>,
      <<"2", ".", "0", ".", "0">>,
      <<"1">> }

ReqFeatures ==
    { <<>>, <<"f">>, <<"f", ",", "l">>, <<"l", ",", "f">>, <<"f", ",", "f">>,
      <<"k">>, <<"f", ",", "k">>, <<"k", ",", "i">>, <<"f", ",", ",", "l">> }

Requests == {PDep(<<"a">>, v, f, <<>>) : v \in ReqVersions, f \in ReqFeatures}

(***************************************************************************)
(* The version and resolver operations.                                    *)
(***************************************************************************)
\* OrdVersion::parse(s) is called
OrdParse ==
    /\ rpc = "idle"
    /\ \E s \in VersionInputs :
          /\ arg' = s
          /\ IF OrdVersion_parse(build, s) = Panic
             THEN rpc' = "panic" /\ UNCHANGED parsed
             ELSE rpc' = "parsed" /\ parsed' = OrdVersion_parse(build, s)
    /\ UNCHANGED <<ords, orderings, pdep, fdep, nversion, dep>>
    /\ UNCHANGED <<aliases, file_len, build, batchvars, pc, input, segs, si, subs, ti, calls, res, out>>
    /\ UNCHANGED tokvars

\* three versions are printed, parsed and compared with each other
OrdCompare ==
    /\ rpc = "idle"
    /\ \E a \in CompareInputs, b \in CompareInputs, c \in CompareInputs :
          LET x == OrdVersion_parse(build, OrdVersion_to_string(a)).val
              y == OrdVersion_parse(build, OrdVersion_to_string(b)).val
              z == OrdVersion_parse(build, OrdVersion_to_string(c)).val
          IN  /\ ords' = <<x, y, z>>
              /\ orderings' = [xy |-> OrdVersion_cmp(x, y), yx |-> OrdVersion_cmp(y, x),
                               yz |-> OrdVersion_cmp(y, z), xz |-> OrdVersion_cmp(x, z)]
    /\ rpc' = "compared"
    /\ UNCHANGED <<arg, parsed, pdep, fdep, nversion, dep>>
    /\ UNCHANGED <<aliases, file_len, build, batchvars, pc, input, segs, si, subs, ti, calls, res, out>>
    /\ UNCHANGED tokvars

\* fetch_crates_dep answered: normalize(pdep, fdep) is called
Fetched ==
    /\ rpc = "idle"
    /\ \E p \in Requests, f \in Snapshots : pdep' = p /\ fdep' = f
    /\ rpc' = "version"
    /\ UNCHANGED <<arg, parsed, ords, orderings, nversion, dep>>
    /\ UNCHANGED <<aliases, file_len, build, batchvars, pc, input, segs, si, subs, ti, calls, res, out>>
    /\ UNCHANGED tokvars

\* normalize: the version of the dependency
NormalizeVersion ==
    /\ rpc = "version"
    /\ IF pdep.version = <<>>
       THEN IF get_last_version(build, fdep) = Panic
            THEN rpc' = "panic" /\ UNCHANGED <<nversion, dep>>
            ELSE /\ nversion' = get_last_version(build, fdep).val
                 /\ rpc' = "features"
                 /\ UNCHANGED dep
       ELSE IF has_version(fdep, pdep.version)
            THEN /\ nversion' = pdep.version
                 /\ rpc' = "features"
                 /\ UNCHANGED dep
            ELSE /\ dep' = Err("invalid version")
                 /\ rpc' = "done"
                 /\ UNCHANGED nversion
    /\ UNCHANGED <<arg, parsed, ords, orderings, pdep, fdep>>
    /\ UNCHANGED <<aliases, file_len, build, batchvars, pc, input, segs, si, subs, ti, calls, res, out>>
    /\ UNCHANGED tokvars

\* normalize: the features of the dependency, and the result
NormalizeFeatures ==
    /\ rpc = "features"
    /\ dep' = IF select_features(pdep, fdep, nversion).ok
              THEN Ok(Dep(fdep.name, nversion, select_features(pdep, fdep, nversion).val))
              ELSE select_features(pdep, fdep, nversion)
    /\ rpc' = "done"
    /\ UNCHANGED <<arg, parsed, ords, orderings, pdep, fdep, nversion>>
    /\ UNCHANGED <<aliases, file_len, build, batchvars, pc, input, segs, si, subs, ti, calls, res, out>>
    /\ UNCHANGED tokvars

(***************************************************************************)
(* Dep::to_toml, Dep::from_toml and the answer of the registry.            *)
(***************************************************************************)
\* toml::Value: a string, an array and a table
TString(v) == [type |-> "String", str |-> v]

TArray(a) == [type |-> "Array", arr |-> a]

TTable(t) == [type |-> "Table", tbl |-> t]

\* the keys "version" and "features" of the table of a dependency
KVersion == <<"version">>

KFeatures == <<"features">>

\* the strings of a toml array, in order
array_strings(a) ==
    LET strs == SelectSeq(a, LAMBDA x : x.type = "String")
    IN  [i \in 1..Len(strs) |-> strs[i].str]

\* Dep::from_toml
from_toml(n, attrs) ==
    IF attrs.type = "String" THEN Ok(Dep(n, attrs.str, None))
    ELSE IF attrs.type = "Table"
    THEN IF ~(KVersion \in DOMAIN attrs.tbl /\ attrs.tbl[KVersion].type = "String")
         THEN Err("parse error: version")
         ELSE IF ~(KFeatures \in DOMAIN attrs.tbl /\ attrs.tbl[KFeatures].type = "Array")
         THEN Err("parse error: features")
         ELSE Ok(Dep(n, attrs.tbl[KVersion].str,
                     Some(array_strings(attrs.tbl[KFeatures].arr))))
    ELSE Err("parse error: incorrect attrs type")

\* to_toml that writes an empty feature list as a bare version
to_toml_bare_empty(d) ==
    IF d.features.some /\ d.features.val # <<>>
    THEN <<d.name,
           TTable([k \in {KVersion, KFeatures} |->
                      IF k = KVersion THEN TString(d.version)
                      ELSE TArray([i \in 1..Len(d.features.val) |-> TString(d.features.val[i])])])>>
    ELSE <<d.name, TString(d.version)>>

\* Dep::to_toml: the name and the value of the entry
to_toml(d) ==
    IF d.features.some
    THEN <<d.name,
           TTable([k \in {KVersion, KFeatures} |->
                      IF k = KVersion THEN TString(d.version)
                      ELSE TArray([i \in 1..Len(d.features.val) |-> TString(d.features.val[i])])])>>
    ELSE <<d.name, TString(d.version)>>

\* serde_json::Value; the entries of the object of the features are kept in
\* the order the iteration over the object yields them
JString(v) == [type |-> "String", val |-> v]

JArray(a) == [type |-> "Array", val |-> a]

JObject(o) == [type |-> "Object", val |-> o]

JNull == [type |-> "Null", val |-> <<>>]

KVersions == <<"versions">>

KNum == <<"num">>

\* vo.get(k) is Some of a value of type t
has_typed(o, k, t) == k \in DOMAIN o /\ o[k].type = t

\* the version object v has a string "num" and an object "features"
is_stored(v) ==
    /\ v.type = "Object"
    /\ has_typed(v.val, KNum, "String")
    /\ has_typed(v.val, KFeatures, "Object")

\* the loop over the array of versions: vhm.insert(num, features) for each
\* object with both fields, from the i-th on
RECURSIVE fill_versions(_, _, _)
fill_versions(arr, i, vhm) ==
    IF i > Len(arr) THEN vhm
    ELSE IF is_stored(arr[i])
    THEN fill_versions(arr, i + 1,
             [n \in DOMAIN vhm \cup {arr[i].val[KNum].val} |->
                 IF n = arr[i].val[KNum].val THEN arr[i].val[KFeatures].val ELSE vhm[n]])
    ELSE fill_versions(arr, i + 1, vhm)

\* fetch_crates_dep that stores a version object without a "features" object
\* with no feature
snapshot_of_lenient(n, obj) ==
    IF obj.type = "Object" /\ has_typed(obj.val, KVersions, "Array")
    THEN LET arr == obj.val[KVersions].val
             stored == {j \in 1..Len(arr) :
                           arr[j].type = "Object" /\ has_typed(arr[j].val, KNum, "String")}
             last(m) == CHOOSE j \in stored :
                           /\ arr[j].val[KNum].val = m
                           /\ \A k \in stored : arr[k].val[KNum].val = m => k <= j
         IN  CratesDep(n, [m \in {arr[j].val[KNum].val : j \in stored} |->
                              IF has_typed(arr[last(m)].val, KFeatures, "Object")
                              THEN arr[last(m)].val[KFeatures].val ELSE <<>>])
    ELSE CratesDep(n, << >>)

\* fetch_crates_dep after the text of the answer is parsed as JSON
snapshot_of(n, obj) ==
    IF obj.type = "Object" /\ has_typed(obj.val, KVersions, "Array")
    THEN CratesDep(n, fill_versions(obj.val[KVersions].val, 1, << >>))
    ELSE CratesDep(n, << >>)

(***************************************************************************)
(* The inputs of the conversions.                                          *)
(***************************************************************************)
\* most version objects in an answer of the registry
MaxVersions == 2

RoundTripDeps ==
    {Dep(n, v, fs) :
        n \in { <<"a">>, <<"b">> },
        v \in { <<"1", ".", "0", ".", "0">>, <<"1", ".", "0">> },
        fs \in {None, Some(<<>>), Some(<< <<"f">> >>), Some(<< <<"f">>, <<"l">> >>),
                Some(<< <<"l">>, <<"f">> >>), Some(<< <<"f">>, <<"f">> >>)}}

\* the values of the field "num" and of the field "features" in an answer
NumFields == { JString(<<"1", ".", "0", ".", "0">>), JString(<<"1", ".", "5", ".", "2">>), JNull }

FeaturesFields ==
    { JObject(<<>>), JObject(<< <<"f">> >>), JObject(<< <<"l">>, <<"f">> >>), JNull }

VersionObjects ==
    {JObject(o) : o \in UNION {[ks -> NumFields \cup FeaturesFields] :
                                  ks \in SUBSET {KNum, KFeatures}}}
        \cup {JNull}

Payloads ==
    {JObject([k \in {KVersions} |-> JArray(a)]) :
        a \in UNION {[1..n -> VersionObjects] : n \in 0..MaxVersions}}
        \cup {JObject(<< >>), JNull}

(***************************************************************************)
(* The conversions.                                                        *)
(***************************************************************************)
\* a Dep is written with to_toml and read back with from_toml
DepRoundTrip ==
    /\ rpc = "idle"
    /\ \E d \in RoundTripDeps :
          toml' = [dep |-> d, attrs |-> to_toml(d),
                   back |-> from_toml(to_toml(d)[1], to_toml(d)[2])]
    /\ rpc' = "converted"
    /\ UNCHANGED <<arg, parsed, ords, orderings, pdep, fdep, nversion, dep, body>>
    /\ UNCHANGED cmdvars
    /\ UNCHANGED <<aliases, file_len, build, pc, input, segs, si, subs, ti, calls, res, out>>
    /\ UNCHANGED tokvars

\* fetch_crates_dep received the JSON value obj for the crate "a"
FetchCratesDep ==
    /\ rpc = "idle"
    /\ \E obj \in Payloads :
          body' = [json |-> obj, result |-> snapshot_of(<<"a">>, obj)]
    /\ rpc' = "snapshot"
    /\ UNCHANGED <<arg, parsed, ords, orderings, pdep, fdep, nversion, dep, toml>>
    /\ UNCHANGED cmdvars
    /\ UNCHANGED <<aliases, file_len, build, pc, input, segs, si, subs, ti, calls, res, out>>
    /\ UNCHANGED tokvars

\* the operation is over (it returned, or the process panicked)
ResolveFinish ==
    /\ rpc \in {"parsed", "compared", "done", "panic", "converted", "snapshot"}
    /\ toml' = <<>>
    /\ body' = <<>>
    /\ rpc' = "idle"
    /\ arg' = <<>>
    /\ parsed' = Err("none")
    /\ ords' = <<>>
    /\ orderings' = <<>>
    /\ pdep' = PDep(<<>>, <<>>, <<>>, <<>>)
    /\ fdep' = CratesDep(<<>>, << >>)
    /\ nversion' = <<>>
    /\ dep' = Err("none")
    /\ UNCHANGED cmdvars
    /\ UNCHANGED <<aliases, file_len, build, pc, input, segs, si, subs, ti, calls, res, out>>
    /\ UNCHANGED tokvars

NextResolve ==
    \/ OrdParse
    \/ OrdCompare
    \/ Fetched
    \/ NormalizeVersion
    \/ NormalizeFeatures
    \/ DepRoundTrip
    \/ FetchCratesDep
    \/ ResolveFinish

SpecResolve == Init /\ [][NextResolve]_vars

(***************************************************************************)
(* The manifest: kinds of dependencies, tables and the registry.           *)
(***************************************************************************)
\* DType
Normal == [tag |-> "Normal", os |-> <<>>]

Dev == [tag |-> "Dev", os |-> <<>>]

Build == [tag |-> "Build", os |-> <<>>]

OS(os) == [tag |-> "OS", os |-> os]

\* impl From<S> for DType that matches the tag as it was written
DType_from_raw(s) ==
    IF s = <<"d", "e", "v">> THEN Dev
    ELSE IF s = <<"b", "u", "i", "l", "d">> THEN Build
    ELSE IF s = <<"n", "o", "r", "m", "a", "l">> THEN Normal
    ELSE IF Len(trim(s)) = 0 THEN Normal
    ELSE OS(s)

\* impl From<S> for DType
DType_from(s) ==
    LET l == to_lowercase(s)
    IN  IF l = <<"d", "e", "v">> THEN Dev
        ELSE IF l = <<"b", "u", "i", "l", "d">> THEN Build
        ELSE IF l = <<"n", "o", "r", "m", "a", "l">> THEN Normal
        ELSE IF Len(trim(l)) = 0 THEN Normal
        ELSE OS(l)

\* DType::to_cargo_field: the key of the table of the kind in the manifest
to_cargo_field(t) ==
    CASE t.tag = "Normal" -> <<"dependencies">>
      [] t.tag = "Dev" -> <<"dev-dependencies">>
      [] t.tag = "Build" -> <<"build-dependencies">>
      [] t.tag = "OS" -> <<"target.'cfg(">> \o t.os \o <<")'.dependencies">>

\* Table::insert
insert(t, k, v) == [x \in DOMAIN t \cup {k} |-> IF x = k THEN v ELSE t[x]]

\* `for d in ds { deps.insert(d.to_toml()) }' from the i-th dependency on
RECURSIVE insert_all(_, _, _)
insert_all(t, ds, i) ==
    IF i > Len(ds) THEN t
    ELSE insert_all(insert(t, to_toml(ds[i])[1], to_toml(ds[i])[2]), ds, i + 1)

\* content.get(field) is Some(TValue::Table(_))
has_table(c, fld) == fld \in DOMAIN c /\ c[fld].type = "Table"

\* the characters of the versions in the order of their bytes
ByteOrder == <<"+", "-", ".", "0", "1", "2", "3", "5", "9", "b", "v", "x">>

byte(c) == CHOOSE i \in 1..Len(ByteOrder) : ByteOrder[i] = c

\* String's `>': the order of the bytes, a proper prefix is smaller
gt(s, t) ==
    LET n == IF Len(s) < Len(t) THEN Len(s) ELSE Len(t)
        diff == {i \in 1..n : s[i] # t[i]}
    IN  IF diff = {} THEN Len(s) > Len(t)
        ELSE LET d == CHOOSE i \in diff : \A j \in diff : i <= j
             IN  byte(s[d]) > byte(t[d])

\* normalize that selects every feature the version has
normalize_every_feature(b, p, f) ==
    LET v == IF p.version = <<>> THEN get_last_version(b, f)
             ELSE IF has_version(f, p.version) THEN Ok(p.version)
             ELSE Err("invalid version")
    IN  IF ~v.ok THEN v
        ELSE IF p.features = <<>> THEN Ok(Dep(f.name, v.val, None))
        ELSE Ok(Dep(f.name, v.val, get_features(f, v.val)))

\* normalize: the dependency of the request p in the snapshot f, an error, or
\* the panic of get_last_version
normalize(b, p, f) ==
    LET v == IF p.version = <<>> THEN get_last_version(b, f)
             ELSE IF has_version(f, p.version) THEN Ok(p.version)
             ELSE Err("invalid version")
    IN  IF ~v.ok THEN v
        ELSE IF select_features(p, f, v.val).ok
        THEN Ok(Dep(f.name, v.val, select_features(p, f, v.val).val))
        ELSE select_features(p, f, v.val)

\* the answer of crates.io about the crate n: what it holds about n, and an
\* object without "versions" for a crate it does not know
fetch_answer(reg, n) == IF n \in DOMAIN reg THEN reg[n] ELSE snapshot_of(n, JObject(<< >>))

\* a future of fetch_crates_dep, not polled yet
Future(n) == [name |-> n, state |-> "created", res |-> Err("none"), rank |-> 0]

\* a future of Dep::update_version for the dependency d of the kind t
UpdateFuture(t, d) ==
    [name |-> d.name, state |-> "created", res |-> Err("none"), rank |-> 0,
     dtype |-> t, dep |-> d]

\* join_all that is ready as soon as one future has completed
join_all_ready_first(fs) == \E i \in 1..Len(fs) : fs[i].state = "done"

\* join_all(fs).await is ready: every future has completed
join_all_ready(fs) == \A i \in 1..Len(fs) : fs[i].state = "done"

\* flatten that gives the answers in the order the fetches completed
flatten_by_rank(fs) ==
    LET oks == SelectSeq(fs, LAMBDA x : x.state = "done" /\ x.res.ok)
        nth(k) == CHOOSE i \in 1..Len(oks) :
                      Cardinality({j \in 1..Len(oks) : oks[j].rank < oks[i].rank}) = k - 1
    IN  [k \in 1..Len(oks) |-> oks[nth(k)].res.val]

\* `.into_iter().flatten()': the values of the futures that returned Ok
flatten(fs) ==
    LET oks == SelectSeq(fs, LAMBDA x : x.state = "done" /\ x.res.ok)
    IN  [i \in 1..Len(oks) |-> oks[i].res.val]

(***************************************************************************)
(* init_project and append_deps after the fetches.                         *)
(***************************************************************************)
\* the loop `for i in 0..fdl': normalize, and the kind of the request
RECURSIVE normalize_from(_, _, _, _)
normalize_from(b, ps, fds, i) ==
    IF i > Len(ps) THEN Ok(<<>>)
    ELSE LET d == normalize(b, ps[i], fds[i])
         IN  IF ~d.ok THEN d
             ELSE LET rest == normalize_from(b, ps, fds, i + 1)
                  IN  IF ~rest.ok THEN rest
                      ELSE Ok(<<[dtype |-> DType_from(ps[i].target), dep |-> d.val]>>
                                 \o rest.val)

\* resolve_new_set that leaves out the requests whose fetch or whose
\* resolution failed
resolve_new_set_lenient(b, ps, fs, e) ==
    LET good == {i \in 1..Len(ps) :
                    /\ fs[i].state = "done" /\ fs[i].res.ok
                    /\ normalize(b, ps[i], fs[i].res.val).ok}
        nth(k) == CHOOSE i \in good : Cardinality({j \in good : j < i}) = k - 1
    IN  Ok([k \in 1..Cardinality(good) |->
               [dtype |-> DType_from(ps[nth(k)].target),
                dep |-> normalize(b, ps[nth(k)], fs[nth(k)].res.val).val]])

\* the check of the count of the fetched snapshots, then the loop; e is the
\* error of the command when a fetch failed
resolve_new_set(b, ps, fs, e) ==
    IF Len(ps) # Len(flatten(fs)) THEN e
    ELSE normalize_from(b, ps, flatten(fs), 1)

\* the dependencies of the kind t, in the order they were pushed
group(rds, t) ==
    LET of_t == SelectSeq(rds, LAMBDA r : r.dtype = t)
    IN  [i \in 1..Len(of_t) |-> of_t[i].dep]

\* append_deps: `for (t, ds) in hmdeps' on the tables of the manifest
append_tables(c, rds) ==
    LET kinds == {rds[i].dtype : i \in 1..Len(rds)}
        fields == {to_cargo_field(t) : t \in kinds}
        kind_of(fld) == CHOOSE t \in kinds : to_cargo_field(t) = fld
    IN  [fld \in DOMAIN c \cup fields |->
            IF fld \notin fields THEN c[fld]
            ELSE IF fld \notin DOMAIN c
            THEN TTable(insert_all(<< >>, group(rds, kind_of(fld)), 1))
            ELSE IF c[fld].type = "Table"
            THEN TTable(insert_all(c[fld].tbl, group(rds, kind_of(fld)), 1))
            ELSE c[fld]]

\* init_project: `for (t, ds) in hmdeps' on the new manifest
init_tables(c, rds) ==
    LET kinds == {rds[i].dtype : i \in 1..Len(rds)}
        fields == {to_cargo_field(t) : t \in kinds}
        kind_of(fld) == CHOOSE t \in kinds : to_cargo_field(t) = fld
    IN  [fld \in DOMAIN c \cup fields |->
            IF fld \notin fields THEN c[fld]
            ELSE TTable(insert_all(<< >>, group(rds, kind_of(fld)), 1))]

\* init_project: the table "package" of the new manifest
new_manifest ==
    [fld \in {<<"package">>} |->
        TTable([k \in {<<"name">>, <<"version">>, <<"edition">>} |->
                  IF k = <<"name">> THEN TString(<<"p">>)
                  ELSE IF k = <<"version">> THEN TString(<<"0", ".", "1", ".", "0">>)
                  ELSE TString(<<"2", "0", "2", "4">>)])]

(***************************************************************************)
(* update_deps.                                                            *)
(***************************************************************************)
\* the kinds update_deps goes through, in its order
UpdatedKinds == <<Normal, Dev, Build>>

\* update_dep_type: the dependencies of a table in the order ks of its keys,
\* or the error of the first entry from_toml refuses
update_dep_type(tbl, ks) ==
    LET ds == [i \in 1..Len(ks) |-> from_toml(ks[i], tbl[ks[i]])]
        bad == {i \in 1..Len(ks) : ~ds[i].ok}
    IN  IF bad # {} THEN ds[CHOOSE i \in bad : \A j \in bad : i <= j]
        ELSE Ok([i \in 1..Len(ks) |-> ds[i].val])

\* the orders the iteration over a table can go through its keys
iteration_orders(tbl) ==
    {ks \in [1..Cardinality(DOMAIN tbl) -> DOMAIN tbl] :
        \A i, j \in DOMAIN ks : ks[i] = ks[j] => i = j}

\* the orders of the keys of the table of the kind t
kind_orders(c, t) ==
    IF has_table(c, to_cargo_field(t)) THEN iteration_orders(c[to_cargo_field(t)].tbl)
    ELSE {<<>>}

\* the futures update_version of the kind t; the block of a kind returns
\* early when update_dep_type fails
kind_futures(c, t, ks) ==
    IF has_table(c, to_cargo_field(t)) /\ update_dep_type(c[to_cargo_field(t)].tbl, ks).ok
    THEN LET fds == update_dep_type(c[to_cargo_field(t)].tbl, ks).val
         IN  [i \in 1..Len(fds) |-> UpdateFuture(t, fds[i])]
    ELSE <<>>

\* Dep::update_version once the fetch has answered r
update_version(b, d, r) ==
    IF ~r.ok THEN r
    ELSE IF ~get_last_version(b, r.val).ok THEN Panic
    ELSE Ok(Dep(d.name, get_last_version(b, r.val).val, d.features))

\* (dtype, uds, vds) of the block of the kind t
kind_result(fs, t) ==
    LET of_t == SelectSeq(fs, LAMBDA x : x.dtype = t)
    IN  [dtype |-> t, uds |-> flatten(of_t),
         vds |-> [i \in 1..Len(of_t) |-> of_t[i].dep.version]]

\* the blocks that returned Ok, in the order of the kinds
RECURSIVE update_results(_, _, _)
update_results(c, fs, i) ==
    IF i > Len(UpdatedKinds) THEN <<>>
    ELSE LET t == UpdatedKinds[i]
             tbl == c[to_cargo_field(t)].tbl
             ran == /\ has_table(c, to_cargo_field(t))
                    /\ \A ks \in iteration_orders(tbl) : update_dep_type(tbl, ks).ok
         IN  (IF ran THEN <<kind_result(fs, t)>> ELSE <<>>) \o update_results(c, fs, i + 1)

\* the number of dependencies of a kind counted as changed
changed_count(fr) ==
    Cardinality({i \in 1..Len(fr.uds) : gt(fr.uds[i].version, fr.vds[i])})

\* the loop `for fr in frs' from the i-th result on: the tables, the number of
\* kinds with a change, and the error the loop returned with
RECURSIVE update_tables(_, _, _, _)
update_tables(c, rs, i, real_updated) ==
    IF i > Len(rs)
    THEN [content |-> c, real_updated |-> real_updated, result |-> Ok(<<>>)]
    ELSE LET fr == rs[i]
             fld == to_cargo_field(fr.dtype)
             c2 == IF has_table(c, fld)
                   THEN [c EXCEPT ![fld] = TTable(insert_all(<< >>, fr.uds, 1))]
                   ELSE c
         IN  IF changed_count(fr) > 0 /\ Len(fr.uds) # Len(fr.vds)
             THEN [content |-> c2, real_updated |-> real_updated + 1,
                   result |-> ErrWith("damn error in fetching and updating deps: {}",
                                      u32_to_string(Len(fr.vds) - Len(fr.uds)))]
             ELSE update_tables(c2, rs, i + 1,
                                real_updated + (IF changed_count(fr) > 0 THEN 1 ELSE 0))

(***************************************************************************)
(* remove_deps.                                                            *)
(***************************************************************************)
\* names.as_ref().trim().split(",").collect::<HashSet<_>>()
names_of(s) == {split_on(trim(s), ",")[i] : i \in 1..Len(split_on(trim(s), ","))}

\* the entries of the table that are named and that from_toml refuses
refused(tbl, names) == {k \in DOMAIN tbl \cap names : ~from_toml(k, tbl[k]).ok}

\* the first loop of remove_deps: the kinds, in order, whose table holds a
\* named entry from_toml refuses
refusing_kinds(c, names) ==
    {i \in 1..Len(UpdatedKinds) :
        /\ has_table(c, to_cargo_field(UpdatedKinds[i]))
        /\ refused(c[to_cargo_field(UpdatedKinds[i])].tbl, names) # {}}

\* deps.retain(|k, _| !names.contains(&k))
retain(tbl, names) == [k \in DOMAIN tbl \ names |-> tbl[k]]

\* content.remove(&dtcf) that leaves the table where it is
remove_kept(c, fld) == c

\* content.remove(&dtcf)
remove(c, fld) == [k \in DOMAIN c \ {fld} |-> c[k]]

\* the second loop of remove_deps from the i-th kind on: a table with a named
\* entry keeps its other entries, and is removed when none is left
RECURSIVE remove_tables(_, _, _)
remove_tables(c, names, i) ==
    IF i > Len(UpdatedKinds) THEN c
    ELSE LET fld == to_cargo_field(UpdatedKinds[i])
         IN  IF ~has_table(c, fld) THEN remove_tables(c, names, i + 1)
             ELSE IF DOMAIN c[fld].tbl \cap names = {} THEN remove_tables(c, names, i + 1)
             ELSE IF DOMAIN retain(c[fld].tbl, names) = {}
             THEN remove_tables(remove(c, fld), names, i + 1)
             ELSE remove_tables([c EXCEPT ![fld] = TTable(retain(c[fld].tbl, names))],
                                names, i + 1)

(***************************************************************************)
(* The commands init, add, update and remove: one run of the program.      *)
(***************************************************************************)
parsevars == <<pc, input, segs, si, subs, ti, calls, res, out>>

\* the manifest with the tables ts beside the table "package"
Manifest(ts) == [fld \in DOMAIN new_manifest \cup DOMAIN ts |->
                    IF fld \in DOMAIN ts THEN ts[fld] ELSE new_manifest[fld]]

\* a table of dependencies with the entry n, and with the entries n and m
Table1(n, v) == TTable([k \in {n} |-> v])

Table2(n, v, m, w) == TTable([k \in {n, m} |-> IF k = n THEN v ELSE w])

\* the manifests the commands are run on: no file, no dependency, and
\* dependencies of each kind, with and without features; a key
\* "dependencies" that holds no table; a table without entries; a dependency
\* at 9.0.0; an entry without "features"
StoredManifests ==
    { None,
      Some(new_manifest),
      Some(Manifest([f \in {to_cargo_field(Normal)} |-> Table1(<<"a">>, TString(<<"1", ".", "0", ".", "0">>))])),
      Some(Manifest([f \in {to_cargo_field(Normal)} |->
                        Table2(<<"a">>, TString(<<"1", ".", "0", ".", "0">>), <<"b">>, TString(<<"2", ".", "0", ".", "0">>))])),
      Some(Manifest([f \in {to_cargo_field(Normal), to_cargo_field(Dev)} |->
                        IF f = to_cargo_field(Normal)
                        THEN Table1(<<"a">>, to_toml(Dep(<<"a">>, <<"1", ".", "0", ".", "0">>, Some(<< <<"f">> >>)))[2])
                        ELSE Table1(<<"b">>, TString(<<"1", ".", "0">>))])),
      Some(Manifest([f \in {to_cargo_field(Normal), to_cargo_field(Dev)} |->
                        IF f = to_cargo_field(Normal)
                        THEN Table2(<<"a">>, TString(<<"1", ".", "0", ".", "0">>), <<"b">>, TString(<<"1", ".", "0", ".", "0">>))
                        ELSE Table1(<<"a">>, TString(<<"1", ".", "0", ".", "0">>))])),
      Some(Manifest([f \in {to_cargo_field(Build)} |-> Table1(<<"b">>, TString(<<"1", ".", "0">>))])),
      Some(Manifest([f \in {to_cargo_field(OS(<<"l", "i", "n", "u", "x">>))} |->
                        Table1(<<"a">>, TString(<<"1", ".", "0", ".", "0">>))])),
      Some(Manifest([f \in {to_cargo_field(Normal)} |-> TString(<<"1">>)])),
      Some(Manifest([f \in {to_cargo_field(Normal), to_cargo_field(Build)} |->
                        IF f = to_cargo_field(Normal)
                        THEN Table1(<<"a">>, TString(<<"1", ".", "0", ".", "0">>))
                        ELSE TTable(<< >>)])),
      Some(Manifest([f \in {to_cargo_field(Normal)} |-> Table1(<<"a">>, TString(<<"9", ".", "0", ".", "0">>))])),
      Some(Manifest([f \in {to_cargo_field(Normal), to_cargo_field(Dev)} |->
                        IF f = to_cargo_field(Normal)
                        THEN Table1(<<"a">>, TTable([k \in {KVersion} |-> TString(<<"1", ".", "0", ".", "0">>)]))
                        ELSE Table1(<<"a">>, TString(<<"1", ".", "0", ".", "0">>))])) }

\* what crates.io holds about the crates "a" and "b"
SnapshotsA ==
    { CratesDep(<<"a">>, << >>),
      CratesDep(<<"a">>, [v \in {<<"1", ".", "0", ".", "0">>} |-> << <<"f">> >>]),
      CratesDep(<<"a">>, [v \in {<<"1", ".", "0", ".", "0">>, <<"2", ".", "0", ".", "0">>} |->
                             IF v = <<"1", ".", "0", ".", "0">> THEN << <<"f">> >> ELSE << <<"f">>, <<"k">> >>]),
      CratesDep(<<"a">>, [v \in {<<"9", ".", "0", ".", "0">>, <<"1", "0", ".", "0", ".", "0">>} |-> <<>>]) }

SnapshotsB ==
    { CratesDep(<<"b">>, [v \in {<<"1", ".", "0">>} |-> <<>>]),
      CratesDep(<<"b">>, [v \in {<<"1", ".", "0", ".", "0">>, <<"2", ".", "0", ".", "0">>} |-> <<>>]) }

\* the crates of the example of the specification
SnapshotPkgA ==
    CratesDep(<<"p", "k", "g", "A">>, [v \in {<<"1", ".", "0">>} |-> <<<<"f", "e", "a", "t", "1">>, <<"f", "e", "a", "t", "2">>, <<"f", "e", "a", "t", "3">>>>])

SnapshotPkgB ==
    CratesDep(<<"p", "k", "g", "B">>, [v \in {<<"3", ".", "2", ".", "1">>, <<"1", ".", "0", ".", "0">>} |-> <<>>])

Registries ==
    {[n \in {<<"a">>, <<"b">>, <<"p", "k", "g", "A">>, <<"p", "k", "g", "B">>} |->
         IF n = <<"a">> THEN sa ELSE IF n = <<"b">> THEN sb
         ELSE IF n = <<"p", "k", "g", "A">> THEN SnapshotPkgA ELSE SnapshotPkgB] :
        sa \in SnapshotsA, sb \in SnapshotsB}

\* the dependencies given to init and to add
BatchInputs ==
    { <<"a">>,
      <<"a", "/", "b">>,
      <<"a", "/", "a">>,
      <<"a", "@", "1", ".", "0", ".", "0">>,
      <<"a", "@", "2", ".", "0", ".", "0", ":", "k", ",", "f">>,
      <<"a", ":", "f">>,
      <<"a", ":", "l">>,
      <<"a", "!", "d", "e", "v">>,
      <<"b", "!", "l", "i", "n", "u", "x">>,
      <<"a", "@", "@">>,
      <<"a", "!", "d", "e", "v", "/", "a">>,
      <<"p", "k", "g", "A", "@", "1", ".", "0", ":", "f", "e", "a", "t", "1", ",", "f", "e", "a", "t", "2", "/", "p", "k", "g", "B">>,
      <<"a", "@", "1", ".", "5", ".", "2">>,
      <<"a", "!", "B", "/", "b", "!", "b">>,
      <<"a", "!", "l", "i", "n", "u", "x", "/", "b", "!", "w", "i", "n", "d", "o", "w", "s">>,
      <<"a", "!", "n", "o", "r", "m", "a", "l", "/", "b", "!", "b", "u", "i", "l", "d">> }

\* the names given to remove
RemoveInputs ==
    { <<"a">>, <<"b">>, <<"a", ",", "b">>, <<"k">>, <<"b", ",", "k">>, <<" ", "a", " ">> }

InitBatch ==
    /\ aliases = << >>
    /\ file_len = 0
    /\ build \in {"dep", "main"}
    /\ pc = "idle"
    /\ input = <<>>
    /\ segs = <<>> /\ si = 0
    /\ subs = <<>> /\ ti = 0
    /\ calls = <<>>
    /\ res = <<>>
    /\ out = Err("none")
    /\ NoTok
    /\ NoReg
    /\ toml = <<>>
    /\ body = <<>>
    /\ cmd = "none"
    /\ bpc = "idle"
    /\ manifest \in StoredManifests
    /\ old_content = manifest
    /\ content = << >>
    /\ registry \in Registries
    /\ pdeps = <<>>
    /\ futs = <<>>
    /\ frs = <<>>
    /\ hmdeps = <<>>
    /\ writes = 0
    /\ status = Err("none")

\* the command returns r before it parsed anything
ReturnEarly(r) ==
    /\ status' = r
    /\ bpc' = "done"
    /\ UNCHANGED <<manifest, content, pdeps, futs, frs, hmdeps, writes>>
    /\ UNCHANGED parsevars
    /\ UNCHANGED <<aliases, file_len, build, regvars>>
    /\ UNCHANGED tokvars

\* handle_command, Init without dependencies: init_project(None, None), the
\* manifest is written, then create_dir("src") fails when src exists
InitBare ==
    /\ bpc = "idle"
    /\ cmd' = "init"
    /\ content' = new_manifest
    /\ manifest' = Some(new_manifest)
    /\ writes' = writes + 1
    /\ \E src_exists \in BOOLEAN :
          status' = IF src_exists THEN Err("File exists") ELSE Ok(<<>>)
    /\ bpc' = "done"
    /\ UNCHANGED <<toml, body, old_content, registry, pdeps, futs, frs, hmdeps>>
    /\ UNCHANGED parsevars
    /\ UNCHANGED <<aliases, file_len, build, regvars>>
    /\ UNCHANGED tokvars

\* handle_command, Init with dependencies: init_project up to parse_deps
InitStart ==
    /\ bpc = "idle"
    /\ cmd' = "init"
    /\ UNCHANGED <<toml, body, old_content, registry>>
    /\ IF build = "dep" /\ ~load_ok
       THEN ReturnEarly(Err("alias storage"))
       ELSE /\ \E s \in BatchInputs : ParseDepsStart(build, s)
            /\ content' = new_manifest
            /\ bpc' = "parsing"
            /\ UNCHANGED <<manifest, pdeps, futs, frs, hmdeps, writes, status>>

\* handle_command, Add: from_cur, then append_deps up to parse_deps
AddStart ==
    /\ bpc = "idle"
    /\ cmd' = "add"
    /\ UNCHANGED <<toml, body, old_content, registry>>
    /\ IF ~manifest.some
       THEN ReturnEarly(Err("cargo not found"))
       ELSE IF build = "dep" /\ ~load_ok
       THEN ReturnEarly(Err("alias storage"))
       ELSE /\ \E s \in BatchInputs : ParseDepsStart(build, s)
            /\ content' = manifest.val
            /\ bpc' = "parsing"
            /\ UNCHANGED <<manifest, pdeps, futs, frs, hmdeps, writes, status>>

\* parse_deps(..)? returned: the error ends the command, else a future of
\* fetch_crates_dep is made for each request
BatchParsed ==
    /\ bpc = "parsing"
    /\ pc \in {"done", "panic"}
    /\ IF pc = "panic"
       THEN /\ status' = Panic
            /\ bpc' = "done"
            /\ UNCHANGED <<pdeps, futs>>
       ELSE IF ~out.ok
       THEN /\ status' = out
            /\ bpc' = "done"
            /\ UNCHANGED <<pdeps, futs>>
       ELSE /\ pdeps' = out.val
            /\ futs' = [i \in 1..Len(out.val) |-> Future(out.val[i].name)]
            /\ bpc' = "fetching"
            /\ UNCHANGED status
    /\ UNCHANGED <<toml, body, cmd, manifest, old_content, content, registry, frs, hmdeps, writes>>
    /\ UNCHANGED parsevars
    /\ UNCHANGED <<aliases, file_len, build, regvars>>
    /\ UNCHANGED tokvars

\* handle_command, Update: from_cur, then update_deps up to join_all; a
\* block is made for each kind that has a table
UpdateStart ==
    /\ bpc = "idle"
    /\ cmd' = "update"
    /\ UNCHANGED <<toml, body, old_content, registry>>
    /\ IF ~manifest.some
       THEN ReturnEarly(Err("cargo not found"))
       ELSE /\ content' = manifest.val
            /\ \E kn \in kind_orders(manifest.val, Normal),
                  kd \in kind_orders(manifest.val, Dev),
                  kb \in kind_orders(manifest.val, Build) :
                  futs' = kind_futures(manifest.val, Normal, kn)
                            \o kind_futures(manifest.val, Dev, kd)
                            \o kind_futures(manifest.val, Build, kb)
            /\ bpc' = "fetching"
            /\ UNCHANGED <<manifest, pdeps, frs, hmdeps, writes, status>>
            /\ UNCHANGED parsevars
            /\ UNCHANGED <<aliases, file_len, build, regvars>>
            /\ UNCHANGED tokvars

\* the first poll of join_all polls the futures in order: the request of the
\* next one is sent
Issue ==
    /\ bpc = "fetching"
    /\ \E i \in 1..Len(futs) :
          /\ futs[i].state = "created"
          /\ \A j \in 1..(i - 1) : futs[j].state # "created"
          /\ futs' = [futs EXCEPT ![i].state = "issued"]
    /\ UNCHANGED <<toml, body, cmd, bpc, manifest, old_content, content, registry, pdeps, frs, hmdeps,
                   writes, status>>
    /\ UNCHANGED parsevars
    /\ UNCHANGED <<aliases, file_len, build, regvars>>
    /\ UNCHANGED tokvars

\* the fetch of the i-th future is answered, or fails; in update the future
\* goes on with get_last_version, which can panic
Complete(i) ==
    /\ bpc = "fetching"
    /\ futs[i].state = "issued"
    /\ \A j \in 1..Len(futs) : futs[j].state # "created"
    /\ \E sent \in BOOLEAN :
       \E r \in {IF sent THEN Ok(fetch_answer(registry, futs[i].name)) ELSE Err("fetch")} :
       \E v \in {IF cmd = "update" THEN update_version(build, futs[i].dep, r) ELSE r} :
          LET n == Cardinality({j \in 1..Len(futs) : futs[j].state = "done"})
          IN  /\ futs' = [futs EXCEPT ![i].state = "done", ![i].res = v, ![i].rank = n + 1]
              /\ IF v = Panic
                 THEN status' = Panic /\ bpc' = "done"
                 ELSE UNCHANGED <<status, bpc>>
    /\ UNCHANGED <<toml, body, cmd, manifest, old_content, content, registry, pdeps, frs, hmdeps, writes>>
    /\ UNCHANGED parsevars
    /\ UNCHANGED <<aliases, file_len, build, regvars>>
    /\ UNCHANGED tokvars

\* init_project after join_all, then handle_command writes the manifest and
\* makes the directory src
InitFinish ==
    /\ bpc = "fetching"
    /\ cmd = "init"
    /\ join_all_ready(futs)
    /\ frs' = flatten(futs)
    /\ \E r \in {resolve_new_set(build, pdeps, futs, Err("error with fetching some deps"))} :
           IF r.ok
           THEN /\ content' = init_tables(content, r.val)
                /\ manifest' = Some(init_tables(content, r.val))
                /\ writes' = writes + 1
                /\ hmdeps' = r.val
                /\ \E src_exists \in BOOLEAN :
                      status' = IF src_exists THEN Err("File exists") ELSE Ok(<<>>)
           ELSE /\ status' = r
                /\ UNCHANGED <<content, manifest, writes, hmdeps>>
    /\ bpc' = "done"
    /\ UNCHANGED <<toml, body, cmd, old_content, registry, pdeps, futs>>
    /\ UNCHANGED parsevars
    /\ UNCHANGED <<aliases, file_len, build, regvars>>
    /\ UNCHANGED tokvars

\* append_deps after join_all
AddFinish ==
    /\ bpc = "fetching"
    /\ cmd = "add"
    /\ join_all_ready(futs)
    /\ frs' = flatten(futs)
    /\ \E r \in {resolve_new_set(build, pdeps, futs,
                    ErrWith("error fetching some dependencies: {}",
                            u32_to_string(Len(pdeps) - Len(flatten(futs)))))} :
           IF r.ok
           THEN /\ content' = append_tables(content, r.val)
                /\ manifest' = Some(append_tables(content, r.val))
                /\ writes' = writes + 1
                /\ hmdeps' = r.val
                /\ status' = Ok(<<>>)
           ELSE /\ status' = r
                /\ UNCHANGED <<content, manifest, writes, hmdeps>>
    /\ bpc' = "done"
    /\ UNCHANGED <<toml, body, cmd, old_content, registry, pdeps, futs>>
    /\ UNCHANGED parsevars
    /\ UNCHANGED <<aliases, file_len, build, regvars>>
    /\ UNCHANGED tokvars

\* update_deps after join_all
UpdateFinish ==
    /\ bpc = "fetching"
    /\ cmd = "update"
    /\ join_all_ready(futs)
    /\ \E rs \in {update_results(content, futs, 1)} :
          /\ frs' = rs
          /\ \E u \in {update_tables(content, rs, 1, 0)} :
                /\ content' = u.content
                /\ status' = u.result
                /\ IF u.result.ok /\ u.real_updated > 0
                   THEN manifest' = Some(u.content) /\ writes' = writes + 1
                   ELSE UNCHANGED <<manifest, writes>>
    /\ bpc' = "done"
    /\ UNCHANGED <<toml, body, cmd, old_content, registry, pdeps, futs, hmdeps>>
    /\ UNCHANGED parsevars
    /\ UNCHANGED <<aliases, file_len, build, regvars>>
    /\ UNCHANGED tokvars

\* handle_command, Remove: from_cur, then remove_deps; the names are kept in
\* input
Remove ==
    /\ bpc = "idle"
    /\ cmd' = "remove"
    /\ \E s \in RemoveInputs :
          /\ input' = s
          /\ IF ~manifest.some
             THEN /\ status' = Err("cargo not found")
                  /\ UNCHANGED <<content, manifest, writes>>
             ELSE \E names \in {names_of(s)} :
                  \E bad \in {refusing_kinds(manifest.val, names)} :
                     IF bad # {}
                     THEN \E i \in {k \in bad : \A j \in bad : k <= j} :
                          \E tbl \in {manifest.val[to_cargo_field(UpdatedKinds[i])].tbl} :
                             /\ \E k \in refused(tbl, names) : status' = from_toml(k, tbl[k])
                             /\ content' = manifest.val
                             /\ UNCHANGED <<manifest, writes>>
                     ELSE \E c \in {remove_tables(manifest.val, names, 1)} :
                             /\ content' = c
                             /\ manifest' = Some(c)
                             /\ writes' = writes + 1
                             /\ status' = Ok(<<>>)
    /\ bpc' = "done"
    /\ UNCHANGED <<toml, body, old_content, registry, pdeps, futs, frs, hmdeps>>
    /\ UNCHANGED <<pc, segs, si, subs, ti, calls, res, out>>
    /\ UNCHANGED <<aliases, file_len, build, regvars>>
    /\ UNCHANGED tokvars

NextBatch ==
    \/ InitBare
    \/ InitStart
    \/ AddStart
    \/ UpdateStart
    \/ NextSegment
    \/ SegmentDone
    \/ Collect
    \/ ParseDepBegin
    \/ TransitionVersion
    \/ TransitionFeatures
    \/ TransitionTarget
    \/ PushChar
    \/ ParseError
    \/ ParseDepEnd
    \/ BatchParsed
    \/ Issue
    \/ \E i \in 1..Len(futs) : Complete(i)
    \/ InitFinish
    \/ AddFinish
    \/ UpdateFinish
    \/ Remove

SpecBatch == InitBatch /\ [][NextBatch]_vars

(***************************************************************************)
(* What the properties speak about.                                        *)
(***************************************************************************)
Last(s) == s[Len(s)]

Count(t, c) == Cardinality({i \in 1..Len(t) : t[i] = c})

Delimiters == {"@", ":", "!"}

\* parse_dep has returned to parse_deps; its locals are those of the last
\* call that got past the empty check
Returned == pc = "token" /\ res # <<>>

LastCall == Last(calls)

LastResult == Last(res)

IsParseError(r) == ~r.ok /\ r.msg = "parse error"

IsEmptyError(r) == ~r.ok /\ r.msg = "provided empty string"

Rank(st) ==
    CASE st = "Name" -> 0 [] st = "Version" -> 1 [] st = "Features" -> 2 [] st = "Target" -> 3

\* the position of the only c of t
At(t, c) == CHOOSE i \in 1..Len(t) : t[i] = c

Within(t, from, to, S) == \A i \in from..to : t[i] \in S

Alnums == AlnumChars

\* t is name@version:features!kind with four non-empty sections that begin
\* with an alphanumeric character and hold only the characters of their section
WellFormed(t) ==
    /\ Count(t, "@") = 1 /\ Count(t, ":") = 1 /\ Count(t, "!") = 1
    /\ LET a == At(t, "@")
           b == At(t, ":")
           c == At(t, "!")
       IN  /\ 1 < a /\ a + 1 < b /\ b + 1 < c /\ c < Len(t)
           /\ t[1] \in Alnums /\ t[a + 1] \in Alnums
           /\ t[b + 1] \in Alnums /\ t[c + 1] \in Alnums
           /\ Within(t, 1, a - 1, Alnums \cup {"-", "_"})
           /\ Within(t, a + 1, b - 1, Alnums \cup {".", "-", "_"})
           /\ Within(t, b + 1, c - 1, Alnums \cup {",", "-", "_"})
           /\ Within(t, c + 1, Len(t), Alnums \cup {"-", "_"})

\* the four sections of a well-formed token, as written
Written(t) ==
    PDep(SubSeq(t, 1, At(t, "@") - 1),
         SubSeq(t, At(t, "@") + 1, At(t, ":") - 1),
         SubSeq(t, At(t, ":") + 1, At(t, "!") - 1),
         SubSeq(t, At(t, "!") + 1, Len(t)))

\* C1: parse_dep on a well-formed token name@version:features!kind succeeds
\* and returns exactly the four sections as they were written.
C1_WellFormedRecovered ==
    (Returned /\ WellFormed(LastCall)) => LastResult = Ok(Written(LastCall))

\* a well-formed token with a two-character section has been parsed
C1_Witness ==
    /\ Returned /\ WellFormed(LastCall) /\ LastResult.ok
    /\ Len(LastCall) > 7
    /\ "." \in {LastCall[i] : i \in 1..Len(LastCall)}

\* C2: within one token the parser state never moves backward in the order
\* Name < Version < Features < Target; '@' only leads to Version, ':' to
\* Features and '!' to Target, each only while its once flag is unset, and the
\* flag is set by the transition and stays set, so each trigger moves the
\* state at most once per token.
C2_ForwardOnce ==
    [][(pc = "chars" /\ pc' = "chars") =>
          /\ Rank(state') >= Rank(state)
          /\ (once_version => once_version')
          /\ (once_features => once_features')
          /\ (once_target => once_target')
          /\ state' # state =>
                /\ Rank(state') > Rank(state)
                /\ \/ chars[pos] = "@" /\ state' = "Version"
                      /\ ~once_version /\ once_version'
                   \/ chars[pos] = ":" /\ state' = "Features"
                      /\ ~once_features /\ once_features'
                   \/ chars[pos] = "!" /\ state' = "Target"
                      /\ ~once_target /\ once_target']_vars

\* all three transitions were taken in one token
C2_Witness ==
    pc = "chars" /\ state = "Target" /\ once_version /\ once_features /\ once_target

\* the text that follows the delimiter d in p, up to the next delimiter
After(p, d) ==
    IF Count(p, d) = 0 THEN <<>>
    ELSE LET i == At(p, d)
             e == {j \in (i + 1)..Len(p) : p[j] \in Delimiters}
             stop == IF e = {} THEN Len(p) + 1 ELSE CHOOSE j \in e : \A k \in e : j <= k
         IN  SubSeq(p, i + 1, stop - 1)

\* the text before the first delimiter of p
Before(p) ==
    LET e == {j \in 1..Len(p) : p[j] \in Delimiters}
        stop == IF e = {} THEN Len(p) + 1 ELSE CHOOSE j \in e : \A k \in e : j <= k
    IN  SubSeq(p, 1, stop - 1)

\* the state the consumed text p leaves the machine in
StateAfter(p) ==
    IF Count(p, "!") > 0 THEN "Target"
    ELSE IF Count(p, ":") > 0 THEN "Features"
    ELSE IF Count(p, "@") > 0 THEN "Version"
    ELSE "Name"

Consumed == SubSeq(chars, 1, pos - 1)

\* C3: a parse error carries the name, version, features and target made of
\* exactly the characters consumed before the offending one, and the state
\* the machine was in.
C3_ErrorCarriesState ==
    (Returned /\ IsParseError(LastResult)) =>
        /\ chars = trim(LastCall)
        /\ pos <= Len(chars)
        /\ LastResult.name = Before(Consumed)
        /\ LastResult.version = After(Consumed, "@")
        /\ LastResult.features = After(Consumed, ":")
        /\ LastResult.target = After(Consumed, "!")
        /\ LastResult.state = StateAfter(Consumed)

\* a parse error was raised in Features after name and version were read
C3_Witness ==
    /\ Returned /\ IsParseError(LastResult)
    /\ LastResult.state = "Features"
    /\ LastResult.name # <<>> /\ LastResult.version # <<>> /\ LastResult.features # <<>>

Blank(t) == \A i \in 1..Len(t) : t[i] = " "

EntersVersion(t, i) ==
    /\ t[i] = "@"
    /\ i < Len(t) /\ t[i + 1] \in Alnums
    /\ Within(t, 1, i - 1, Alnums \cup {"-", "_"})

\* C5: a token with a second '@' after the Version section has been entered
\* (such as a@1.0@2.0) is a parse error.
C5_SecondAtIsError ==
    (Returned /\ ~Blank(LastCall)
       /\ \E i \in 1..Len(chars) : /\ EntersVersion(chars, i)
                                   /\ \E j \in (i + 1)..Len(chars) : chars[j] = "@")
    => IsParseError(LastResult)

\* a@1.0@2.0 was stopped at its second '@'
C5_Witness ==
    /\ Returned /\ IsParseError(LastResult)
    /\ LastCall = <<"a", "@", "1", ".", "0", "@", "2", ".", "0">>
    /\ LastResult.state = "Version" /\ chars[pos] = "@" /\ pos = 6

\* the character at hand is a delimiter whose once flag is already set
RepeatedDelimiter ==
    /\ InLoop
    /\ \/ chars[pos] = "@" /\ once_version
       \/ chars[pos] = ":" /\ once_features
       \/ chars[pos] = "!" /\ once_target

\* the section the state accumulates
Current ==
    CASE state = "Name" -> name [] state = "Version" -> version
      [] state = "Features" -> features [] state = "Target" -> target

\* C6 as stated: a repeated delimiter whose transition is blocked by the
\* exactly-once guard is appended, as data, to the section being accumulated.
C6_Original ==
    [][RepeatedDelimiter =>
          /\ pc' = "chars" /\ state' = state /\ pos' = pos + 1
          /\ Current' = Append(Current, chars[pos])]_vars

\* C6 amended: a repeated delimiter whose transition is blocked by the
\* exactly-once guard is appended to no section; parse_dep stops there with a
\* parse error that carries the sections accumulated so far.
C6_RepeatedDelimiterIsError ==
    [][RepeatedDelimiter =>
          /\ pc' = "token"
          /\ Len(res') = Len(res) + 1
          /\ IsParseError(Last(res'))
          /\ Last(res').name = name /\ Last(res').version = version
          /\ Last(res').features = features /\ Last(res').target = target
          /\ UNCHANGED <<name, version, features, target, state>>]_vars

\* a second ':' met in the Features section ended the token in a parse error
C6_Witness ==
    /\ Returned /\ IsParseError(LastResult)
    /\ chars[pos] = ":" /\ once_features /\ state = "Features"
    /\ LastResult.features = features /\ features # <<>>

\* C7: a delimiter moves the state only when the next character exists and is
\* alphanumeric; so in every successfully parsed token the version, features
\* and target sections that were entered are non-empty and begin with an
\* alphanumeric character.
C7_LookaheadGuard ==
    /\ [][(pc = "chars" /\ pc' = "chars" /\ state' # state) =>
             (pos + 1 <= Len(chars) /\ chars[pos + 1] \in Alnums)]_vars
    /\ [](Returned /\ LastResult.ok =>
             /\ Count(chars, "@") > 0 =>
                   LastResult.val.version # <<>> /\ LastResult.val.version[1] \in Alnums
             /\ Count(chars, ":") > 0 =>
                   LastResult.val.features # <<>> /\ LastResult.val.features[1] \in Alnums
             /\ Count(chars, "!") > 0 =>
                   LastResult.val.target # <<>> /\ LastResult.val.target[1] \in Alnums)

\* a token was parsed successfully through all three transitions
C7_Witness ==
    /\ Returned /\ LastResult.ok
    /\ Count(chars, "@") = 1 /\ Count(chars, ":") = 1 /\ Count(chars, "!") = 1
    /\ Len(LastResult.val.features) > 1

\* parse_dep returns a parse error in this step
ErrorStep == pc' = "token" /\ Len(res') = Len(res) + 1 /\ IsParseError(Last(res'))

\* C8: each section accumulates only its own character class: '.' is taken
\* only in Version, ',' only in Features, '-' and '_' in every section; a '.'
\* in Name, Features or Target and a ',' in Name, Version or Target is a
\* parse error.
C8_SectionClasses ==
    /\ [](/\ Within(name, 1, Len(name), Alnums \cup {"-", "_"})
          /\ Within(version, 1, Len(version), Alnums \cup {".", "-", "_"})
          /\ Within(features, 1, Len(features), Alnums \cup {",", "-", "_"})
          /\ Within(target, 1, Len(target), Alnums \cup {"-", "_"}))
    /\ [][InLoop =>
             /\ (chars[pos] = "." /\ state # "Version") => ErrorStep
             /\ (chars[pos] = "," /\ state # "Features") => ErrorStep
             /\ (chars[pos] = "." /\ state = "Version") =>
                   version' = Append(version, ".")
             /\ (chars[pos] = "," /\ state = "Features") =>
                   features' = Append(features, ",")
             /\ chars[pos] \in {"-", "_"} =>
                   Current' = Append(Current, chars[pos])]_vars

\* a '.' met in the Features section ended the token in a parse error
C8_Witness ==
    /\ Returned /\ IsParseError(LastResult)
    /\ chars[pos] = "." /\ LastResult.state = "Features"

\* the '/'-separated pieces of t
RECURSIVE Pieces(_)
Pieces(t) ==
    IF Count(t, "/") = 0 THEN <<t>>
    ELSE LET i == CHOOSE j \in 1..Len(t) : t[j] = "/" /\ \A k \in 1..(j - 1) : t[k] # "/"
         IN  <<SubSeq(t, 1, i - 1)>> \o Pieces(SubSeq(t, i + 1, Len(t)))

\* the segment of the input a token list was just chosen for
Dispatched == pc = "token" /\ si \in 1..Len(segs)

IsMacro(d) ==
    /\ Len(d) >= 2 /\ d[1] = "s" /\ d[2] = "+"
    /\ to_lowercase(SubSeq(d, 3, Len(d))) = <<"a", "x", "u", "m">>

MacroTokens == << <<"t", "o", "k", "i", "o", ":", "f", "u", "l", "l">>, <<"a", "x", "u", "m">> >>

RECURSIVE ExpectedCalls(_)
ExpectedCalls(i) ==
    IF i > Len(segs) THEN <<>>
    ELSE (IF segs[i] \in DOMAIN aliases THEN Pieces(aliases[segs[i]]) ELSE <<segs[i]>>)
            \o ExpectedCalls(i + 1)

\* C10: alias expansion is one level deep: parse_dep is called once for each
\* '/'-separated piece of an alias's expansion and once for each other
\* segment, a piece that is itself an alias name is parsed as a plain name,
\* and the alias table is the same after every step of parsing.
C10_OneLevelAlias ==
    /\ [][pc # "idle" => (aliases' = aliases /\ file_len' = file_len)]_vars
    /\ []((pc = "done" /\ build = "dep") =>
             /\ calls = ExpectedCalls(1)
             /\ Len(res) = Len(calls)
             /\ \A i \in 1..Len(calls) :
                   calls[i] \in DOMAIN aliases =>
                       res[i] = [ok |-> TRUE,
                                 val |-> [name |-> calls[i], version |-> <<>>,
                                          features |-> <<>>, target |-> <<>>]])

\* an alias whose expansion names the alias itself was expanded once
C10_Witness ==
    /\ pc = "done" /\ build = "dep"
    /\ Len(segs) = 1 /\ segs[1] \in DOMAIN aliases
    /\ Len(Pieces(aliases[segs[1]])) = 2
    /\ calls[2] = segs[1]
    /\ Len(calls) = 2 /\ out.ok

\* the successful results of r, in order
Successes(r) == SelectSeq(r, LAMBDA x : x.ok)

\* C11: parse_deps is best-effort: when a segment fails to parse, the other
\* segments are still parsed and the caller receives one parsed request for
\* every token that parsed.
C11_BestEffort ==
    pc = "done" =>
        /\ out.ok
        /\ Len(out.val) = Len(Successes(res))
        /\ \A i \in 1..Len(out.val) : out.val[i] = Successes(res)[i].val

(***************************************************************************)
(* What the properties of the versions and the resolver speak about.       *)
(***************************************************************************)
DigitChars == {"0", "1", "2", "3", "4", "5", "6", "7", "8", "9"}

\* the positions of the character c in the text t
Positions(t, c) == {i \in 1..Len(t) : t[i] = c}

\* the position of the first c in t
FirstAt(t, c) == CHOOSE i \in Positions(t, c) : \A j \in Positions(t, c) : i <= j

\* the text t from position i on
From(t, i) == SubSeq(t, i, Len(t))

\* the part of t before its first '-' (all of t when it has none)
Stem(t) == IF Positions(t, "-") = {} THEN t ELSE SubSeq(t, 1, FirstAt(t, "-") - 1)

\* the first position of t that holds a digit, Len(t) + 1 when there is none
FirstDigit(t) ==
    IF \E i \in 1..Len(t) : t[i] \in DigitChars
    THEN CHOOSE i \in 1..Len(t) : t[i] \in DigitChars /\ \A j \in 1..(i - 1) : t[j] \notin DigitChars
    ELSE Len(t) + 1

\* the first position of t that does not hold the character t[1]
FirstOther(t) ==
    IF \E i \in 1..Len(t) : t[i] # t[1]
    THEN CHOOSE i \in 1..Len(t) : t[i] # t[1] /\ \A j \in 1..(i - 1) : t[j] = t[1]
    ELSE Len(t) + 1

\* the k-th piece of t between the characters c, for k in 1..Count(t, c) + 1
Field(t, c, k) ==
    LET cut == [i \in 0..(Count(t, c) + 1) |->
                   IF i = 0 THEN 0
                   ELSE IF i = Count(t, c) + 1 THEN Len(t) + 1
                   ELSE CHOOSE n \in Positions(t, c) :
                            Cardinality({m \in Positions(t, c) : m <= n}) = i]
    IN  SubSeq(t, cut[k - 1] + 1, cut[k] - 1)

\* the pieces of t between the characters c
Fields(t, c) == [k \in 1..(Count(t, c) + 1) |-> Field(t, c, k)]

\* a number as str::parse::<u32>() reads it: digits, possibly after one '+'
Numeral(t) ==
    LET d == IF t # <<>> /\ t[1] = "+" THEN From(t, 2) ELSE t
    IN  d # <<>> /\ \A i \in 1..Len(d) : d[i] \in DigitChars

DigitOf(c) == CHOOSE n \in 0..9 : Digits[n + 1] = c

\* the number a numeral stands for
RECURSIVE NumberOf(_)
NumberOf(t) ==
    IF t = <<>> THEN 0
    ELSE IF t[1] = "+" THEN NumberOf(From(t, 2))
    ELSE NumberOf(SubSeq(t, 1, Len(t) - 1)) * 10 + DigitOf(t[Len(t)])

\* OrdVersion::parse has been applied to arg
Parsed == rpc = "parsed" \/ (rpc = "panic" /\ pdep.name = <<>>)

\* the outcome of the last OrdVersion::parse is the outcome r
OutcomeIs(r) == IF r = Panic THEN rpc = "panic" ELSE rpc = "parsed" /\ parsed = r

\* C12: OrdVersion::parse removes everything from the first '-' on before the
\* numbers are parsed: a text with a suffix parses as the text without it
\* ("2.0.0-beta" as (2,0,0)) and is never refused because of the suffix.
C12_SuffixStripped ==
    (Parsed /\ Positions(arg, "-") # {}) =>
        /\ OutcomeIs(OrdVersion_parse(build, Stem(arg)))
        /\ arg = <<"2", ".", "0", ".", "0", "-", "b", "e", "t", "a">> => parsed = Ok(<<2, 0, 0>>)

\* C13: when the first character of the text is not a digit, OrdVersion::parse
\* removes the whole leading run of characters that are not digits, also when
\* the run holds different characters, and parses what remains.
C13_LeadingRunStripped ==
    (Parsed /\ Positions(arg, "-") = {} /\ arg # <<>> /\ arg[1] \notin DigitChars
            /\ FirstDigit(arg) <= Len(arg)) =>
        OutcomeIs(OrdVersion_parse(build, From(arg, FirstDigit(arg))))

\* the text whose fields OrdVersion::parse reads when t has no '-': t without
\* the repetitions of its first character when that is not a digit
Remaining(t) == IF t[1] \in DigitChars THEN t ELSE From(t, FirstOther(t))

\* the numbers of the fields, the missing ones 0
Padded(f) ==
    <<NumberOf(f[1]),
      IF Len(f) >= 2 THEN NumberOf(f[2]) ELSE 0,
      IF Len(f) >= 3 THEN NumberOf(f[3]) ELSE 0>>

\* C14: OrdVersion::parse accepts exactly one, two or three numeric fields
\* between dots and fills the missing trailing ones with 0 ("1" is (1,0,0),
\* "1.2" is (1,2,0)); four or more fields, or a field that is no number, is
\* an error.
C14_FieldCount ==
    (rpc = "parsed" /\ Positions(arg, "-") = {}) =>
        LET f == Fields(Remaining(arg), ".")
        IN  /\ parsed.ok <=> (Len(f) \in 1..3 /\ \A i \in 1..Len(f) : Numeral(f[i]))
            /\ parsed.ok => parsed.val = Padded(f)
            /\ arg = <<"1">> => parsed = Ok(<<1, 0, 0>>)
            /\ arg = <<"1", ".", "2">> => parsed = Ok(<<1, 2, 0>>)

\* a text of four numeric fields was refused
C14_Witness ==
    /\ rpc = "parsed"
    /\ arg = <<"1", ".", "1", ".", "1", ".", "1">>
    /\ ~parsed.ok /\ parsed.msg = "invalid parts {}" /\ parsed.arg = 4

\* a is before b in the lexicographic order on (major, minor, patch)
LexLess(a, b) ==
    \/ a[1] < b[1]
    \/ a[1] = b[1] /\ a[2] < b[2]
    \/ a[1] = b[1] /\ a[2] = b[2] /\ a[3] < b[3]

\* C15: the order of OrdVersion is the lexicographic order on (major, minor,
\* patch); it is total, antisymmetric and transitive, and
\* parse("2.0.0") > parse("1.9.9") > parse("1.9.0").
C15_LexicographicOrder ==
    rpc = "compared" =>
        LET x == ords[1]
            y == ords[2]
            z == ords[3]
        IN  /\ orderings.xy \in {"Less", "Equal", "Greater"}
            /\ orderings.xy = "Less" <=> LexLess(x, y)
            /\ orderings.xy = "Greater" <=> LexLess(y, x)
            /\ orderings.xy = "Equal" <=> x = y
            /\ orderings.xy = "Less" <=> orderings.yx = "Greater"
            /\ (orderings.xy = "Less" /\ orderings.yz = "Less") => orderings.xz = "Less"
            /\ (orderings.xy = "Greater" /\ orderings.yz = "Greater") => orderings.xz = "Greater"
            /\ ords = << <<2, 0, 0>>, <<1, 9, 9>>, <<1, 9, 0>> >> =>
                   orderings.xy = "Greater" /\ orderings.yz = "Greater"

\* 2.0.0, 1.9.9 and 1.9.0 were parsed and compared
C15_Witness ==
    /\ rpc = "compared"
    /\ ords = << <<2, 0, 0>>, <<1, 9, 9>>, <<1, 9, 0>> >>
    /\ orderings.xy = "Greater" /\ orderings.yz = "Greater" /\ orderings.xz = "Greater"

\* normalize has chosen the version of a request without a version, or failed to
LatestChosen == pdep.name # <<>> /\ pdep.version = <<>> /\ rpc \in {"features", "panic", "done"}

\* the keys of the snapshot that parse as versions
Parseable == {k \in DOMAIN fdep.versions : OrdVersion_parse(build, k).ok}

\* the largest of a non-empty set of versions
Largest(S) == CHOOSE m \in S : \A x \in S : x = m \/ LexLess(x, m)

\* C16: get_last_version returns the largest of the versions of the snapshot
\* that parse and ignores the others; when none parses (also in the empty
\* snapshot) it fails with the EmptyRegistryResult error and in no other way;
\* over {"1.0.0", "2.0.0-beta", "1.5.2"} it returns "2.0.0".
C16_LastVersion ==
    LatestChosen =>
        /\ rpc # "panic"
        /\ Parseable # {} =>
              nversion = OrdVersion_to_string(
                             Largest({OrdVersion_parse(build, k).val : k \in Parseable}))
        /\ Parseable = {} => rpc = "done" /\ ~dep.ok /\ dep.msg = "empty registry result"
        /\ DOMAIN fdep.versions = { <<"1", ".", "0", ".", "0">>,
                                    <<"2", ".", "0", ".", "0", "-", "b", "e", "t", "a">>,
                                    <<"1", ".", "5", ".", "2">> } =>
              nversion = <<"2", ".", "0", ".", "0">>

\* the error e is formatted with the text t
Names(e, t) == "arg" \in DOMAIN e /\ e.arg = t

\* normalize is past the choice of the version of a request with a version
VersionChecked == pdep.version # <<>> /\ rpc \in {"features", "done"}

\* C17: with a version in the request, normalize succeeds with that version
\* only if it is a key of the snapshot, as written; otherwise it returns the
\* invalid version error, and the error names the requested version.
C17_ExactVersion ==
    VersionChecked =>
        IF pdep.version \in DOMAIN fdep.versions
        THEN /\ nversion = pdep.version
             /\ (rpc = "done" /\ dep.ok) => dep.val.version = pdep.version
        ELSE /\ rpc = "done" /\ ~dep.ok
             /\ dep.msg = "invalid version"
             /\ Names(dep, pdep.version)

\* normalize returned, and not with the invalid version error
FeaturesChecked == rpc = "done" /\ (dep.ok \/ dep.msg # "invalid version")

\* the indexes of the requested features that the chosen version does not declare
NonMembers ==
    LET req == Fields(pdep.features, ",")
        declared == fdep.versions[nversion]
    IN  {i \in 1..Len(req) : \A j \in 1..Len(declared) : declared[j] # req[i]}

\* C18: with features in the request, normalize succeeds only if every
\* requested feature, between commas, is declared by the chosen version;
\* otherwise it returns the invalid features error with exactly the first
\* requested feature that is not declared.
C18_FirstInvalidFeature ==
    (FeaturesChecked /\ pdep.features # <<>> /\ nversion \in DOMAIN fdep.versions) =>
        /\ dep.ok <=> NonMembers = {}
        /\ NonMembers # {} =>
              /\ dep.msg = "invalid features: {}"
              /\ dep.arg = Fields(pdep.features, ",")[CHOOSE i \in NonMembers :
                                                         \A j \in NonMembers : i <= j]

\* of two requested features that are not declared, the first was reported
C18_Witness ==
    /\ FeaturesChecked
    /\ pdep.features = <<"k", ",", "i">>
    /\ nversion \in DOMAIN fdep.versions
    /\ ~dep.ok /\ dep.msg = "invalid features: {}" /\ dep.arg = <<"k">>

\* the error of a chosen version without an entry in the snapshot
IsInconsistent(r) == ~r.ok /\ r.msg = "invalid features, strange"

\* C19: with features in the request and a chosen version that has no entry
\* in the versions of the snapshot, normalize returns an error of its own,
\* different from the invalid features error; this does not happen when the
\* version was found in the snapshot.
C19_InconsistentRegistry ==
    (FeaturesChecked /\ pdep.features # <<>>) =>
        /\ nversion \notin DOMAIN fdep.versions =>
              IsInconsistent(dep) /\ dep.msg # "invalid features: {}"
        /\ nversion \in DOMAIN fdep.versions => ~IsInconsistent(dep)
        /\ pdep.version # <<>> => ~IsInconsistent(dep)

\* the latest version, printed, is no key of the snapshot
C19_Witness ==
    /\ FeaturesChecked
    /\ pdep.version = <<>> /\ pdep.features = <<"f">>
    /\ DOMAIN fdep.versions = { <<"1", ".", "0">> }
    /\ nversion = <<"1", ".", "0", ".", "0">>
    /\ IsInconsistent(dep)

\* C20: when normalize succeeds, the features of the result are None for a
\* request without features, and otherwise exactly the requested features
\* in the order of the request (same length, same order, duplicates kept),
\* whatever the order in which the registry declares them.
C20_RequestedOrder ==
    (rpc = "done" /\ dep.ok) =>
        IF pdep.features = <<>>
        THEN dep.val.features = None
        ELSE /\ dep.val.features.some
             /\ Len(dep.val.features.val) = Count(pdep.features, ",") + 1
             /\ dep.val.features.val = Fields(pdep.features, ",")

\* the registry declares f before l, the request and the result have l before f
C20_Witness ==
    /\ rpc = "done" /\ dep.ok
    /\ pdep.features = <<"l", ",", "f">>
    /\ fdep.versions[nversion] = << <<"f">>, <<"l">> >>
    /\ dep.val.features = Some(<< <<"l">>, <<"f">> >>)

\* the set of the elements of a sequence
Range(q) == {q[i] : i \in 1..Len(q)}

(***************************************************************************)
(* The commands init, add and update.                                      *)
(***************************************************************************)
\* the command is over
Finished == bpc = "done"

\* the command is init or add: a new set of dependencies is resolved
NewSet == cmd \in {"init", "add"}

\* the request of the i-th future has been sent
Sent(i) == futs[i].state \in {"issued", "done"}

\* the i-th fetch has answered, and the i-th fetch has failed
Answered(i) == futs[i].state = "done"

FetchFailed(i) == futs[i].state = "done" /\ ~futs[i].res.ok

AllAnswered == \A i \in 1..Len(futs) : Answered(i)

AllFetched == \A i \in 1..Len(futs) : Answered(i) /\ futs[i].res.ok

\* the names of the parsed requests
RequestedNames == {pdeps[i].name : i \in 1..Len(pdeps)}

\* C21: init and add send exactly one fetch for each distinct name of the
\* parsed requests: a name that occurs in two requests is fetched once.
C21_OneFetchPerName ==
    NewSet /\ AllAnswered =>
        \A n \in RequestedNames :
            Cardinality({i \in 1..Len(futs) : futs[i].name = n /\ Sent(i)}) = 1

\* the version the i-th request asks for is not in the registry
InvalidVersion(i) ==
    /\ pdeps[i].version # <<>>
    /\ pdeps[i].version \notin DOMAIN registry[pdeps[i].name].versions

\* a feature the i-th request asks for is a feature of no version of the crate
InvalidFeature(i) ==
    /\ pdeps[i].features # <<>>
    /\ \E f \in Range(split_on(pdeps[i].features, ",")) :
          \A v \in DOMAIN registry[pdeps[i].name].versions :
              f \notin Range(registry[pdeps[i].name].versions[v])

BatchFailed ==
    \/ \E i \in 1..Len(futs) : FetchFailed(i)
    \/ \E i \in 1..Len(pdeps) : InvalidVersion(i) \/ InvalidFeature(i)

\* C22: when a fetch of init or add fails, or a request asks for a version or
\* a feature the registry does not have, the command ends in an error and
\* the manifest is not written: after a failed add the file is what it was,
\* and a failed init makes no manifest.
C22_FailedBatchWritesNothing ==
    Finished /\ NewSet /\ pdeps # <<>> /\ BatchFailed =>
        /\ ~status.ok
        /\ writes = 0
        /\ manifest = old_content

C22_Witness ==
    /\ Finished
    /\ cmd = "add"
    /\ Len(futs) = 2
    /\ FetchFailed(1)
    /\ Answered(2) /\ futs[2].res.ok
    /\ ~status.ok
    /\ old_content.some
    /\ manifest = old_content

\* the key of the table of the kind of the i-th resolved dependency
FieldOf(i) == to_cargo_field(hmdeps[i].dtype)

\* the names add resolved for the table fld
AddedTo(fld) == {hmdeps[i].dep.name : i \in {j \in 1..Len(hmdeps) : FieldOf(j) = fld}}

\* the last resolved dependency with the name and the kind of the i-th
IsLastOf(i) ==
    \A j \in (i + 1)..Len(hmdeps) :
        ~(FieldOf(j) = FieldOf(i) /\ hmdeps[j].dep.name = hmdeps[i].dep.name)

\* C23: a successful add puts every resolved dependency into the table of the
\* kind of its request (Normal for an empty tag), over an older entry of the
\* same name, makes the table when there is none, and leaves every other
\* entry of the table and every other table as it was.
C23_MergedIntoKindTable ==
    Finished /\ cmd = "add" /\ status.ok =>
        /\ Len(hmdeps) = Len(pdeps)
        /\ \A i \in 1..Len(hmdeps) :
              /\ hmdeps[i].dtype = DType_from(pdeps[i].target)
              /\ pdeps[i].target = <<>> => hmdeps[i].dtype = Normal
              /\ FieldOf(i) \in DOMAIN manifest.val
              /\ manifest.val[FieldOf(i)].type = "Table"
              /\ hmdeps[i].dep.name \in DOMAIN manifest.val[FieldOf(i)].tbl
              /\ IsLastOf(i) =>
                    manifest.val[FieldOf(i)].tbl[hmdeps[i].dep.name] = to_toml(hmdeps[i].dep)[2]
        /\ DOMAIN manifest.val = DOMAIN old_content.val \cup {FieldOf(i) : i \in 1..Len(hmdeps)}
        /\ \A fld \in DOMAIN old_content.val :
              IF AddedTo(fld) = {} THEN manifest.val[fld] = old_content.val[fld]
              ELSE old_content.val[fld].type = "Table" =>
                      \A n \in DOMAIN old_content.val[fld].tbl \ AddedTo(fld) :
                          /\ n \in DOMAIN manifest.val[fld].tbl
                          /\ manifest.val[fld].tbl[n] = old_content.val[fld].tbl[n]
        /\ \A fld \in DOMAIN manifest.val :
              manifest.val[fld].type = "Table" =>
                  \A n \in DOMAIN manifest.val[fld].tbl :
                      \/ n \in AddedTo(fld)
                      \/ fld \in DOMAIN old_content.val
                            /\ old_content.val[fld].type = "Table"
                            /\ n \in DOMAIN old_content.val[fld].tbl

\* the example of the specification
ExampleInput == <<"p", "k", "g", "A", "@", "1", ".", "0", ":", "f", "e", "a", "t", "1", ",", "f", "e", "a", "t", "2", "/", "p", "k", "g", "B">>

\* C24: for the input "pkgA@1.0:feat1,feat2/pkgB" and a registry where pkgA
\* has the version 1.0 with the features feat1, feat2, feat3 and the latest
\* version of pkgB is 3.2.1, the resolved dependencies are exactly pkgA 1.0
\* with the features [feat1, feat2] and pkgB 3.2.1 without a feature list,
\* both of the kind Normal.
C24_Example ==
    Finished /\ NewSet /\ input = ExampleInput /\ AllFetched =>
        /\ status # Panic
        /\ cmd = "add" => status.ok
        /\ writes = 1
        /\ hmdeps = <<[dtype |-> Normal, dep |-> Dep(<<"p", "k", "g", "A">>, <<"1", ".", "0">>, Some(<<<<"f", "e", "a", "t", "1">>, <<"f", "e", "a", "t", "2">>>>))],
                      [dtype |-> Normal, dep |-> Dep(<<"p", "k", "g", "B">>, <<"3", ".", "2", ".", "1">>, None)]>>

C24_Witness ==
    /\ Finished
    /\ cmd = "add"
    /\ input = ExampleInput
    /\ AllFetched
    /\ Len(hmdeps) = 2
    /\ status.ok
    /\ to_cargo_field(Normal) \in DOMAIN manifest.val
    /\ manifest.val[to_cargo_field(Normal)].type = "Table"
    /\ {<<"p", "k", "g", "A">>, <<"p", "k", "g", "B">>} \subseteq DOMAIN manifest.val[to_cargo_field(Normal)].tbl

\* the keys of the tables of dependencies of a manifest: of the kinds Normal,
\* Dev and Build and of every platform
IsDependencyField(fld) ==
    \/ fld \in {<<"dependencies">>, <<"dev-dependencies">>, <<"build-dependencies">>}
    \/ fld[1] = "target.'cfg("

DependencyTables(m) == {fld \in DOMAIN m : IsDependencyField(fld) /\ m[fld].type = "Table"}

\* the entry holds the version v, bare or in a table
HoldsVersion(e, v) ==
    \/ e = TString(v)
    \/ e.type = "Table" /\ KVersion \in DOMAIN e.tbl /\ e.tbl[KVersion] = TString(v)

\* the entries have the same feature list, or none both
SameFeatures(e, o) ==
    IF o.type = "Table"
    THEN e.type = "Table" /\ [k \in DOMAIN o.tbl \ {KVersion} |-> o.tbl[k]]
                                = [k \in DOMAIN e.tbl \ {KVersion} |-> e.tbl[k]]
    ELSE e.type = o.type

\* C25: update resolves every dependency of every kind that has an entry
\* (Normal, Dev, Build and every platform table) again with no version asked
\* for: after a successful update each of them is at the latest version of the
\* registry, with its name and its feature list.
C25_EveryKindUpdated ==
    Finished /\ cmd = "update" /\ status.ok /\ AllFetched =>
        \A fld \in DependencyTables(old_content.val) :
            \A n \in DOMAIN old_content.val[fld].tbl :
                /\ fld \in DependencyTables(manifest.val)
                /\ n \in DOMAIN manifest.val[fld].tbl
                /\ get_last_version(build, registry[n]).ok
                /\ HoldsVersion(manifest.val[fld].tbl[n], get_last_version(build, registry[n]).val)
                /\ SameFeatures(manifest.val[fld].tbl[n], old_content.val[fld].tbl[n])

\* the version v of the crate n is a version of the registry and no version of
\* the registry is greater
AtLatest(n, v) ==
    /\ v \in DOMAIN registry[n].versions
    /\ OrdVersion_parse(build, v).ok
    /\ \A k \in DOMAIN registry[n].versions :
          OrdVersion_parse(build, k).ok =>
              OrdVersion_cmp(OrdVersion_parse(build, k).val, OrdVersion_parse(build, v).val)
                  # "Greater"

\* the dependencies update went through, with the versions they had
Updated == {<<futs[i].name, futs[i].dep.version>> : i \in 1..Len(futs)}

\* some entry of a table of dependencies is not what it was
SomeEntryChanged ==
    \E fld \in DependencyTables(old_content.val) :
        \/ fld \notin DependencyTables(manifest.val)
        \/ manifest.val[fld] # old_content.val[fld]

\* C26: update writes the manifest only if some kind has a changed
\* dependency; when every dependency is at the latest version of the registry
\* it changes nothing, writes nothing and ends successfully.
C26_NothingToUpdate ==
    Finished /\ cmd = "update" /\ old_content.some =>
        /\ writes > 0 => SomeEntryChanged
        /\ (AllFetched /\ \A d \in Updated : AtLatest(d[1], d[2])) =>
              /\ status.ok
              /\ writes = 0
              /\ manifest = old_content

\* the kinds whose block gave fewer dependencies than the table has
Mismatched == {i \in 1..Len(frs) : Len(frs[i].uds) # Len(frs[i].vds)}

\* C27: in update a kind with fewer resolved dependencies than entries gives an
\* error, and the table of the kind is not updated, in memory and in the file.
C27_MismatchIsError ==
    Finished /\ cmd = "update" /\ status # Panic /\ old_content.some =>
        \A i \in Mismatched :
            /\ ~status.ok
            /\ content[to_cargo_field(frs[i].dtype)]
                  = old_content.val[to_cargo_field(frs[i].dtype)]
            /\ manifest.val[to_cargo_field(frs[i].dtype)]
                  = old_content.val[to_cargo_field(frs[i].dtype)]

\* the tables of dependencies of the manifest in memory
MemoryTables(c) == [fld \in {f \in DOMAIN c : IsDependencyField(f)} |-> c[fld]]

\* a fetch is in flight: sent and not answered
InFlight == \E i \in 1..Len(futs) : futs[i].state = "issued"

\* C28: in init, add and update every fetch is sent before any fetch is
\* answered; the tables in memory are changed and the manifest is written
\* only when every fetch of the batch has been answered, in whatever order;
\* no fetch is in flight when the tables are changed or the command returns.
C28_JoinAll ==
    /\ [](\A i \in 1..Len(futs) : Answered(i) => \A j \in 1..Len(futs) : Sent(j))
    /\ [](Finished /\ status # Panic => ~InFlight)
    /\ [][bpc = "fetching"
             /\ (MemoryTables(content') # MemoryTables(content) \/ manifest' # manifest
                    \/ writes' # writes)
            => AllAnswered /\ ~InFlight]_vars

C28_Witness ==
    /\ Finished
    /\ cmd = "add"
    /\ Len(futs) = 2
    /\ futs[2].rank = 1
    /\ futs[1].rank = 2
    /\ writes = 1
    /\ MemoryTables(content) # MemoryTables(old_content.val)

(***************************************************************************)
(* The conversions of a dependency and of the answer of the registry.      *)
(***************************************************************************)
\* the value written for the dependency that went through the round trip
WrittenValue == toml.attrs[2]

\* the strings of the array written under "features"
WrittenFeatures ==
    [i \in 1..Len(WrittenValue.tbl[KFeatures].arr) |-> WrittenValue.tbl[KFeatures].arr[i].str]

\* C29: writing a dependency with to_toml and reading the written entry back
\* with from_toml yields the same name, version and features; a dependency
\* without a feature list is written as a bare version string, one with a
\* feature list as a table with "version" and "features" in the same order, and
\* an empty feature list is read back as an empty list, never as no list.
C29_RoundTrip ==
    rpc = "converted" =>
        /\ toml.attrs[1] = toml.dep.name
        /\ toml.back.ok
        /\ toml.back.val.name = toml.dep.name
        /\ toml.back.val.version = toml.dep.version
        /\ toml.back.val.features = toml.dep.features
        /\ ~toml.dep.features.some => WrittenValue = TString(toml.dep.version)
        /\ toml.dep.features.some =>
              /\ WrittenValue.type = "Table"
              /\ DOMAIN WrittenValue.tbl = {KVersion, KFeatures}
              /\ WrittenValue.tbl[KVersion] = TString(toml.dep.version)
              /\ WrittenValue.tbl[KFeatures].type = "Array"
              /\ \A i \in 1..Len(WrittenValue.tbl[KFeatures].arr) :
                    WrittenValue.tbl[KFeatures].arr[i].type = "String"
              /\ WrittenFeatures = toml.dep.features.val
        /\ toml.dep.features = Some(<<>>) => toml.back.val.features # None

C29_Witness ==
    /\ rpc = "converted"
    /\ toml.dep.features = Some(<<>>)
    /\ toml.back.ok
    /\ toml.back.val.features = Some(<<>>)

\* the version objects of the answer the snapshot was built from
WireVersions ==
    IF body.json.type = "Object" /\ KVersions \in DOMAIN body.json.val
       /\ body.json.val[KVersions].type = "Array"
    THEN body.json.val[KVersions].val
    ELSE <<>>

\* the version object has a string version number and a feature map
IsComplete(v) ==
    /\ v.type = "Object"
    /\ KNum \in DOMAIN v.val
    /\ v.val[KNum].type = "String"
    /\ KFeatures \in DOMAIN v.val
    /\ v.val[KFeatures].type = "Object"

\* the positions of the complete version objects with the version number n
CompleteAt(n) ==
    {i \in 1..Len(WireVersions) : IsComplete(WireVersions[i]) /\ WireVersions[i].val[KNum].val = n}

\* C30: the snapshot built from an answer of the registry holds exactly the
\* version objects that have both a string version number and a feature map;
\* an object without one of them is left out, and the features stored for a
\* version are the keys of its feature map.
C30_CompleteVersionsOnly ==
    rpc = "snapshot" =>
        /\ body.result.name = <<"a">>
        /\ \A n \in DOMAIN body.result.versions : CompleteAt(n) # {}
        /\ \A i \in 1..Len(WireVersions) :
              IsComplete(WireVersions[i]) =>
                  WireVersions[i].val[KNum].val \in DOMAIN body.result.versions
        /\ \A n \in DOMAIN body.result.versions :
              \E i \in CompleteAt(n) :
                  Range(body.result.versions[n]) = Range(WireVersions[i].val[KFeatures].val)

C30_Witness ==
    /\ rpc = "snapshot"
    /\ Len(WireVersions) = 2
    /\ \E i, j \in 1..2 :
          /\ IsComplete(WireVersions[i])
          /\ WireVersions[i].val[KFeatures].val # <<>>
          /\ WireVersions[j].type = "Object"
          /\ KNum \in DOMAIN WireVersions[j].val
          /\ WireVersions[j].val[KNum].type = "String"
          /\ KFeatures \notin DOMAIN WireVersions[j].val
          /\ WireVersions[j].val[KNum].val # WireVersions[i].val[KNum].val
    /\ Cardinality(DOMAIN body.result.versions) = 1

(***************************************************************************)
(* C31: the kind of a request.                                             *)
(***************************************************************************)
\* the kind the specification gives to the tag t as it was written
KindOfTag(t) ==
    IF t = <<>> \/ t = <<"n", "o", "r", "m", "a", "l">> THEN Normal
    ELSE IF t = <<"d", "e", "v">> THEN Dev
    ELSE IF t = <<"b", "u", "i", "l", "d">> THEN Build
    ELSE [tag |-> "OS", os |-> t]

\* the requests of the resolved set whose tag names a platform
PlatformRequests == {i \in 1..Len(hmdeps) : hmdeps[i].dtype.tag = "OS"}

\* the command made the table fld itself
MadeTable(fld) ==
    /\ status.ok
    /\ cmd = "init" \/ ~old_content.some \/ fld \notin DOMAIN old_content.val

\* the names of the requests whose tag is t when the case is ignored
NamesTagged(t) ==
    {pdeps[i].name : i \in {j \in 1..Len(pdeps) : to_lowercase(pdeps[j].target) = t}}

\* C31 as it is written: the platform kind carries the tag as it was given,
\* and two different platform tags never share a table.
C31_Original ==
    Finished /\ NewSet /\ Len(hmdeps) = Len(pdeps) =>
        /\ \A i \in 1..Len(hmdeps) : hmdeps[i].dtype = KindOfTag(pdeps[i].target)
        /\ \A i, j \in PlatformRequests :
              pdeps[i].target # pdeps[j].target => FieldOf(i) # FieldOf(j)

\* C31: the kind of a request is read from its tag without regard to case: it
\* is Normal for an empty tag or "normal", Dev for "dev", Build for "build" and
\* the platform kind of the tag in lowercase for any other tag; two platform
\* tags that differ by more than case give unequal kinds and different
\* sections, and a section the command makes holds the requests of its own
\* tag only.
C31_KindOfTag ==
    Finished /\ NewSet /\ Len(hmdeps) = Len(pdeps) =>
        /\ \A i \in 1..Len(hmdeps) :
              hmdeps[i].dtype = KindOfTag(to_lowercase(pdeps[i].target))
        /\ \A i, j \in PlatformRequests :
              to_lowercase(pdeps[i].target) # to_lowercase(pdeps[j].target) =>
                  /\ hmdeps[i].dtype # hmdeps[j].dtype
                  /\ FieldOf(i) # FieldOf(j)
        /\ \A i \in PlatformRequests :
              MadeTable(FieldOf(i)) =>
                  /\ has_table(manifest.val, FieldOf(i))
                  /\ DOMAIN manifest.val[FieldOf(i)].tbl = NamesTagged(to_lowercase(pdeps[i].target))

C31_Witness ==
    /\ Finished /\ NewSet /\ status.ok
    /\ Len(hmdeps) = 2
    /\ pdeps[1].target = <<"l", "i", "n", "u", "x">>
    /\ pdeps[2].target = <<"w", "i", "n", "d", "o", "w", "s">>
    /\ DOMAIN manifest.val[FieldOf(1)].tbl = {<<"a">>}
    /\ DOMAIN manifest.val[FieldOf(2)].tbl = {<<"b">>}

(***************************************************************************)
(* C33: the version of a resolved dependency.                              *)
(***************************************************************************)
\* normalize returned a dependency
Resolved == rpc = "done" /\ dep.ok

\* C33: whenever normalize succeeds, the version of the dependency it returns
\* is a key of the versions map of the snapshot, also when the request names
\* no version and get_last_version chooses it.
C33_VersionIsKey ==
    Resolved => dep.val.version \in DOMAIN fdep.versions

(***************************************************************************)
(* C32: what update counts as a change.                                    *)
(***************************************************************************)
\* the version update resolved for its i-th dependency
LatestOf(i) == futs[i].res.val.version

\* the version v is greater than the version w in (major, minor, patch) order
Greater(v, w) ==
    /\ OrdVersion_parse(build, v).ok
    /\ OrdVersion_parse(build, w).ok
    /\ OrdVersion_cmp(OrdVersion_parse(build, v).val, OrdVersion_parse(build, w).val) = "Greater"

\* the dependencies whose resolved version is greater than the recorded one
Newer == {i \in 1..Len(futs) : Greater(LatestOf(i), futs[i].dep.version)}

\* C32: in update a dependency counts as changed exactly when its new version
\* is greater than its old one in (major, minor, patch) order: the manifest is
\* written exactly when some dependency has a greater version, as when 9.0.0
\* becomes 10.0.0.
C32_ChangedWhenNewer ==
    Finished /\ cmd = "update" /\ status.ok /\ futs # <<>> /\ AllFetched =>
        (writes > 0 <=> Newer # {})

(***************************************************************************)
(* C34 and C38: what update writes.                                        *)
(***************************************************************************)
\* update wrote the manifest
UpdateWrote == Finished /\ cmd = "update" /\ writes > 0

\* the keys of the tables of the kinds update goes through
UpdatedFields == {to_cargo_field(UpdatedKinds[i]) : i \in 1..Len(UpdatedKinds)}

\* the tables of the manifest m among them
UpdatedTables(m) == {fld \in UpdatedFields : has_table(m, fld)}

\* C34: update never drops a dependency: whenever it writes the manifest,
\* each of the tables Normal, Dev and Build it writes has exactly the names it
\* had before, also when the fetch of some dependency failed.
C34_NoDependencyDropped ==
    UpdateWrote =>
        /\ UpdatedTables(manifest.val) = UpdatedTables(old_content.val)
        /\ \A fld \in UpdatedTables(old_content.val) :
              DOMAIN manifest.val[fld].tbl = DOMAIN old_content.val[fld].tbl

(***************************************************************************)
(* C35: the pairing of the requests with the snapshots.                    *)
(***************************************************************************)
\* what the registry holds about the package of the i-th request
OwnSnapshot(i) == fetch_answer(registry, pdeps[i].name)

\* the i-th request resolved against the snapshot of its own package
OwnResult(i) == normalize(build, pdeps[i], OwnSnapshot(i))

\* the first request its own snapshot refuses
FirstRefused ==
    CHOOSE i \in 1..Len(pdeps) : ~OwnResult(i).ok /\ \A j \in 1..(i - 1) : OwnResult(j).ok

\* C35: in init and add the i-th request is resolved against the snapshot
\* fetched for its own package name, in whatever order the fetches complete:
\* the i-th snapshot and the i-th resolved dependency carry the name of the
\* i-th request, the dependency is what its own snapshot gives, and an error
\* of the resolution is the error of the first request its own snapshot
\* refuses; when a fetch failed no request is resolved.
C35_OwnSnapshot ==
    Finished /\ NewSet /\ pdeps # <<>> =>
        IF ~AllFetched THEN ~status.ok /\ hmdeps = <<>>
        ELSE /\ Len(frs) = Len(pdeps)
             /\ \A i \in 1..Len(pdeps) : frs[i] = OwnSnapshot(i)
             /\ IF status.ok
                THEN /\ Len(hmdeps) = Len(pdeps)
                     /\ \A i \in 1..Len(pdeps) :
                           /\ hmdeps[i].dep.name = pdeps[i].name
                           /\ Ok(hmdeps[i].dep) = OwnResult(i)
                ELSE \/ status.msg = "File exists" /\ \A i \in 1..Len(pdeps) : OwnResult(i).ok
                     \/ /\ \E i \in 1..Len(pdeps) : ~OwnResult(i).ok
                        /\ status = OwnResult(FirstRefused)

C35_Witness ==
    /\ Finished /\ cmd = "add" /\ status.ok /\ AllFetched
    /\ Len(pdeps) = 2
    /\ pdeps[1].name # pdeps[2].name
    /\ futs[2].rank < futs[1].rank
    /\ OwnSnapshot(1).versions # OwnSnapshot(2).versions
    /\ hmdeps[1].dep.version # hmdeps[2].dep.version

(***************************************************************************)
(* C36: parse_version on every text.                                       *)
(***************************************************************************)
\* C36: OrdVersion::parse is total: for every text, the empty text and a text
\* that begins with '-' among them, it returns a version or an error and does
\* not abort; so get_last_version returns when some version of the snapshot
\* parses, whatever the other versions are.
C36_ParseTotal ==
    /\ Parsed => rpc = "parsed"
    /\ LatestChosen /\ Parseable # {} => rpc # "panic"

(***************************************************************************)
(* C37: the name of a parsed request.                                      *)
(***************************************************************************)
\* C37: every request a successful parse_dep returns has a name that is not
\* empty: a token such as "@1.0", ":feat" or "!dev" is refused.
C37_NameNotEmpty ==
    \A i \in 1..Len(res) : res[i].ok => res[i].val.name # <<>>

\* the version the entry n of the table fld of the manifest m records
RecordedVersion(m, fld, n) == from_toml(n, m[fld].tbl[n]).val.version

\* the entries of the tables Normal, Dev and Build that are in the manifest
\* before and after the update, with a version each time
KeptEntries ==
    {e \in UNION {{<<fld, n>> : n \in DOMAIN old_content.val[fld].tbl} :
                      fld \in UpdatedTables(old_content.val)} :
        /\ e[1] \in UpdatedTables(manifest.val)
        /\ e[2] \in DOMAIN old_content.val[e[1]].tbl
        /\ e[2] \in DOMAIN manifest.val[e[1]].tbl
        /\ from_toml(e[2], old_content.val[e[1]].tbl[e[2]]).ok
        /\ from_toml(e[2], manifest.val[e[1]].tbl[e[2]]).ok}

\* C38: update never lowers a version: whenever it writes the manifest, the
\* version written for a dependency is not below the version recorded before
\* in (major, minor, patch) order, also when the latest version of the
\* registry that parses is below the recorded one.
C38_NeverLowered ==
    UpdateWrote =>
        \A e \in KeptEntries :
            ~Greater(RecordedVersion(old_content.val, e[1], e[2]),
                     RecordedVersion(manifest.val, e[1], e[2]))

(***************************************************************************)
(* C39: remove.                                                            *)
(***************************************************************************)
\* the names given to remove, between the commas
GivenNames == Range(Fields(trim(input), ","))

\* the names of the table fld of the manifest m
NamesIn(m, fld) == IF has_table(m, fld) THEN DOMAIN m[fld].tbl ELSE {}

\* the table fld of the manifest held one of the given names
Touched(fld) == fld \in UpdatedFields /\ NamesIn(old_content.val, fld) \cap GivenNames # {}

\* C39: after a successful remove none of the given names is in the tables
\* Normal, Dev and Build; every other entry of these tables is what it was; a
\* table that lost all its entries is removed from the manifest; a table that
\* held none of the names, and every other key of the manifest, is kept as it
\* was.
C39_Removed ==
    Finished /\ cmd = "remove" /\ status.ok =>
        /\ writes = 1
        /\ \A fld \in UpdatedFields : NamesIn(manifest.val, fld) \cap GivenNames = {}
        /\ DOMAIN manifest.val \subseteq DOMAIN old_content.val
        /\ \A fld \in DOMAIN old_content.val :
              IF ~Touched(fld)
              THEN fld \in DOMAIN manifest.val /\ manifest.val[fld] = old_content.val[fld]
              ELSE IF NamesIn(old_content.val, fld) \subseteq GivenNames
              THEN fld \notin DOMAIN manifest.val
              ELSE /\ has_table(manifest.val, fld)
                   /\ DOMAIN manifest.val[fld].tbl = DOMAIN old_content.val[fld].tbl \ GivenNames
                   /\ \A n \in DOMAIN manifest.val[fld].tbl :
                         manifest.val[fld].tbl[n] = old_content.val[fld].tbl[n]

C39_Witness ==
    /\ Finished /\ cmd = "remove" /\ status.ok
    /\ GivenNames = {<<"a">>}
    /\ NamesIn(old_content.val, to_cargo_field(Normal)) = {<<"a">>, <<"b">>}
    /\ NamesIn(manifest.val, to_cargo_field(Normal)) = {<<"b">>}
    /\ to_cargo_field(Dev) \in DOMAIN old_content.val
    /\ to_cargo_field(Dev) \notin DOMAIN manifest.val

====
